---- MODULE Spec2Model ----
(***************************************************************************)
(* Hybrid retrieval engine of mathesis_core.db:                            *)
(*   HierarchicalChromaStore (hierarchical_chroma.py), ChromaHybridStore   *)
(*   (chroma.py) and KoreanBM25 / KoreanTokenizer (korean_tokenizer.py).   *)
(*                                                                         *)
(* The dense collections (ChromaDB) are external: a collection is a        *)
(* function from ids to stored records, add() overwrites a duplicate id    *)
(* (spec 4.3), get() returns the records in an order the store chooses,    *)
(* query() returns the n nearest ids in the order the embedding induces.   *)
(* A question is represented by what the two rankers answer for it: the    *)
(* dense order of the collection and the BM25 score of every indexed text. *)
(***************************************************************************)
EXTENDS Integers, Sequences, FiniteSets, TLC

\* ------------------------------------------------------------------ bounds
\* k of a query ranges over 1..MaxK
MaxK == 2
\* a BM25 score of a text that shares a term with the query is in -1..MaxScore
MaxScore == 1
\* a ChromaHybridStore collection holds at most MaxDocs documents
MaxDocs == 2

\* rrf_k of _hybrid_search_child / hybrid_search
rrf_k == 60

None == "None"

\* ---------------------------------------------------------------- helpers
Min(a, b) == IF a < b THEN a ELSE b

Range(s) == {s[i] : i \in DOMAIN s}

\* the orderings (lists without repetition) of a finite set
Orderings(S) ==
    {s \in [1..Cardinality(S) -> S] : \A i, j \in 1..Cardinality(S) : i # j => s[i] # s[j]}

Take(s, n) == SubSeq(s, 1, Min(n, Len(s)))

\* dict / collection update: a duplicate key is overwritten
Put(f, key, val) == [x \in DOMAIN f \cup {key} |-> IF x = key THEN val ELSE f[x]]

Empty == [x \in {} |-> None]

\* ------------------------------------------------------------- tokenizer
\* KoreanTokenizer._simple_tokenize on one whitespace-separated word of the
\* vocabulary the documents and questions below are written in.  Words are
\* Hangul, written here in Latin transliteration (one syllable block is one
\* character of the source string: "pyo" is 1 character, "sagwareul" is 3).
\* The regex blanks ':' '{' '}', a token shorter than 2 characters is
\* dropped, a trailing particle (reul, ga, gwa, ...) is stripped when
\* something is left, a stopword is dropped.  The result is the list of
\* tokens the word yields (0 or 1).
SimpleWord(w) ==
    CASE w = "seksyeon:"   -> <<"seksyeon">>
      [] w = "pyo:"     -> <<>>
      [] w = "deiteo:" -> <<"deiteo">>
      [] w = "{}"      -> <<>>
      [] w = "sagwareul"  -> <<"sagwa">>
      [] w = "sagwa"    -> <<"sa">>
      [] w = "pyeongga"    -> <<"pyeong">>
      [] w = "neun"      -> <<>>
      [] OTHER         -> <<w>>

RECURSIVE _simple_tokenize(_)
_simple_tokenize(text) ==
    IF text = <<>> THEN <<>>
    ELSE SimpleWord(Head(text)) \o _simple_tokenize(Tail(text))

\* KoreanTokenizer.tokenize with no morphological analyzer installed
tokenize(text) == IF text = <<>> THEN <<>> ELSE _simple_tokenize(text)

tokenize_batch(texts) == [i \in DOMAIN texts |-> tokenize(texts[i])]

\* ------------------------------------------------------------- KoreanBM25
\* BM25Okapi(corpus): the ranking structure built over a tokenized corpus;
\* NotBuilt stands for self.bm25 = None
NotBuilt == [built |-> FALSE, corpus_size |-> 0, corpus |-> <<>>]

\* a slip: a ranking structure that leaves out the documents without tokens
BM25OkapiSkippingEmpty(corpus) ==
    [built |-> TRUE,
     corpus_size |-> Len(SelectSeq(corpus, LAMBDA d : d # <<>>)),
     corpus |-> SelectSeq(corpus, LAMBDA d : d # <<>>)]

BM25Okapi(corpus) == [built |-> TRUE, corpus_size |-> Len(corpus), corpus |-> corpus]

\* a KoreanBM25 object: corpus_tokenized and bm25 (None until fit has run);
\* NoBM25 stands for "no object" (None) in a field declared Optional[KoreanBM25]
NoBM25 == [object |-> FALSE, corpus_tokenized |-> <<>>, bm25 |-> NotBuilt]

\* KoreanBM25.__init__
KoreanBM25 == [object |-> TRUE, corpus_tokenized |-> <<>>, bm25 |-> NotBuilt]

\* a slip: fit appending to the corpus it already holds
fit_additive(index_object, documents) ==
    LET corpus_tokenized == index_object.corpus_tokenized \o tokenize_batch(documents)
    IN  [index_object EXCEPT !.corpus_tokenized = corpus_tokenized,
                             !.bm25 = BM25Okapi(corpus_tokenized)]

\* KoreanBM25.fit(documents) on the object index, BM25Okapi returning
fit(index_object, documents) ==
    LET corpus_tokenized == tokenize_batch(documents)
    IN  [index_object EXCEPT !.corpus_tokenized = corpus_tokenized,
                             !.bm25 = BM25Okapi(corpus_tokenized)]

\* the score vectors BM25Okapi.get_scores can return for the query tokens:
\* one score per corpus position, 0 for a text that shares no term with the
\* query
SharesTerm(doc_tokens, query_tokens) == Range(doc_tokens) \cap Range(query_tokens) # {}

\* BM25Okapi.get_scores(query_tokens)
bm25_get_scores(bm25, query_tokens) ==
    {s \in [1..Len(bm25.corpus) -> -1..MaxScore] :
        \A i \in 1..Len(bm25.corpus) :
            ~SharesTerm(bm25.corpus[i], query_tokens) => s[i] = 0}

\* KoreanBM25.get_scores(query) once fit has run
get_scores(index_object, query) == bm25_get_scores(index_object.bm25, tokenize(query))

\* ------------------------------------------------------------- documents
\* the enhanced_json documents the ingestion collaborator supplies
Table(table_id, caption, markdown) ==
    [table_id |-> table_id, table_caption |-> caption, markdown |-> markdown]

Section(section_id, title, tables) ==
    [section_id |-> section_id, section_title |-> title, tables |-> tables]

Documents ==
    { [document_id |-> "d1",
       sections |-> << Section("s1", "pyeongga",
                         << Table("t1", "seongjeok", <<"sagwareul", "neun">>),
                            Table("t2", "seongjeok", <<"yeonpil">>) >>) >>],
      [document_id |-> "d2",
       sections |-> << Section("s1", "iljeong", << Table("t1", "sigan", <<"yeonpil">>) >>),
                       Section("s2", "pyeongga", << Table("t3", "sigan", <<"sagwareul">>) >>) >>] }

\* the questions asked (one word each)
Questions == { <<"sagwareul">>, <<"yeonpil">>, <<"iljeong">>, <<"eopseum">> }

\* f"child_{table_id}"
child_id_of(table_id) ==
    CASE table_id = "t1" -> "child_t1"
      [] table_id = "t2" -> "child_t2"
      [] table_id = "t3" -> "child_t3"
      [] table_id = "t4" -> "child_t4"
      [] table_id = "t5" -> "child_t5"

\* f"parent_{section_id}"
parent_id_of(section_id) ==
    CASE section_id = "s1" -> "parent_s1"
      [] section_id = "s2" -> "parent_s2"
      [] section_id = "s3" -> "parent_s3"

RECURSIVE TablesText(_)
TablesText(tables) ==
    IF tables = <<>> THEN <<>>
    ELSE <<"##", Head(tables).table_caption>> \o Head(tables).markdown
         \o TablesText(Tail(tables))

_build_parent_text(section) == <<"#", section.section_title>> \o TablesText(section.tables)

_build_child_text(table, section) ==
    <<"seksyeon:", section.section_title, "pyo:", table.table_caption>>
    \o table.markdown \o <<"gujohwa", "deiteo:", "{}">>

\* the collection writes of add_hierarchical_document, in program order: per
\* section the parent, then one child per table
RECURSIVE ChildWrites(_, _, _)
ChildWrites(doc, section, tables) ==
    IF tables = <<>> THEN <<>>
    ELSE << [collection |-> "child",
             id |-> child_id_of(Head(tables).table_id),
             document |-> _build_child_text(Head(tables), section),
             metadata |-> [type |-> "child",
                           parent_id |-> parent_id_of(section.section_id),
                           table_id |-> Head(tables).table_id,
                           section_id |-> section.section_id,
                           document_id |-> doc.document_id]] >>
         \o ChildWrites(doc, section, Tail(tables))

RECURSIVE Writes(_, _)
Writes(doc, sections) ==
    IF sections = <<>> THEN <<>>
    ELSE << [collection |-> "parent",
             id |-> parent_id_of(Head(sections).section_id),
             document |-> _build_parent_text(Head(sections)),
             metadata |-> [type |-> "parent",
                           parent_id |-> None,
                           table_id |-> None,
                           section_id |-> Head(sections).section_id,
                           document_id |-> doc.document_id]] >>
         \o ChildWrites(doc, Head(sections), Head(sections).tables)
         \o Writes(doc, Tail(sections))

\* collection.add(ids=[id], documents=[document], metadatas=[metadata])
CollectionAdd(coll, w) ==
    Put(coll, w.id, [document |-> w.document, metadata |-> w.metadata])

\* a slip: every write applied to both collections, the parents among the
\* children
RECURSIVE Written_unrouted(_, _, _, _)
Written_unrouted(coll, which, writes, n) ==
    IF n = 0 THEN coll
    ELSE CollectionAdd(Written_unrouted(coll, which, writes, n - 1), writes[n])

\* the collection `which` after the first n writes
RECURSIVE Written(_, _, _, _)
Written(coll, which, writes, n) ==
    IF n = 0 THEN coll
    ELSE LET before == Written(coll, which, writes, n - 1)
         IN  IF writes[n].collection = which THEN CollectionAdd(before, writes[n])
             ELSE before

CountWrites(writes, which) == Cardinality({i \in DOMAIN writes : writes[i].collection = which})

\* ------------------------------------------------------------ RRF fusion
\* fractions <<numerator, denominator>> with positive denominators: the
\* totals are sums of at most two reciprocals, compared exactly
FracAdd(a, b) == <<a[1] * b[2] + b[1] * a[2], a[2] * b[2]>>
FracLess(a, b) == a[1] * b[2] < b[1] * a[2]
FracEq(a, b) == a[1] * b[2] = b[1] * a[2]
FracZero == <<0, 1>>

\* 1 / (K + rank + 1), rank 0-based, for the damping constant K
Reciprocal(K, rank) == <<1, K + rank + 1>>

\* a slip: the rank taken 1-based before the + 1
ContributionOneBased(rank) == Reciprocal(rrf_k, rank + 1)

\* 1 / (rrf_k + rank + 1)
Contribution(rank) == Reciprocal(rrf_k, rank)

\* a dict in insertion order: keys is the order, score the values
EmptyScores == [keys |-> <<>>, score |-> Empty]

ScoreGet(doc_scores, doc_id) ==
    IF doc_id \in DOMAIN doc_scores.score THEN doc_scores.score[doc_id] ELSE FracZero

\* for rank, item in enumerate(results):
\*     doc_scores[doc_id] = doc_scores.get(doc_id, 0) + (1 / (rrf_k + rank + 1))
RECURSIVE Accumulate(_, _, _)
Accumulate(doc_scores, ids, rank) ==
    IF ids = <<>> THEN doc_scores
    ELSE LET doc_id == Head(ids)
             next == [keys  |-> IF doc_id \in DOMAIN doc_scores.score
                                THEN doc_scores.keys
                                ELSE Append(doc_scores.keys, doc_id),
                      score |-> Put(doc_scores.score, doc_id,
                                    FracAdd(ScoreGet(doc_scores, doc_id), Contribution(rank)))]
         IN  Accumulate(next, Tail(ids), rank + 1)

RemoveAt(s, i) == SubSeq(s, 1, i - 1) \o SubSeq(s, i + 1, Len(s))

\* a slip: a sort that puts the last of the keys with equal scores first
RECURSIVE sorted_reverse_unstable(_, _)
sorted_reverse_unstable(keys, score) ==
    IF keys = <<>> THEN <<>>
    ELSE LET first == CHOOSE i \in 1..Len(keys) :
                        /\ \A j \in 1..Len(keys) : ~FracLess(score[keys[i]], score[keys[j]])
                        /\ \A j \in (i + 1)..Len(keys) : FracLess(score[keys[j]], score[keys[i]])
         IN  <<keys[first]>> \o sorted_reverse_unstable(RemoveAt(keys, first), score)

\* sorted(keys, key=lambda x: score[x], reverse=True): a stable sort, so keys
\* with equal scores keep the order they have in keys
RECURSIVE sorted_reverse(_, _)
sorted_reverse(keys, score) ==
    IF keys = <<>> THEN <<>>
    ELSE LET first == CHOOSE i \in 1..Len(keys) :
                        /\ \A j \in 1..Len(keys) : ~FracLess(score[keys[i]], score[keys[j]])
                        /\ \A j \in 1..(i - 1) : FracLess(score[keys[j]], score[keys[i]])
         IN  <<keys[first]>> \o sorted_reverse(RemoveAt(keys, first), score)

\* the RRF fusion of _hybrid_search_child / hybrid_search: the vector list is
\* accumulated first, then the BM25 list
doc_scores_of(vector_ids, bm25_ids) ==
    Accumulate(Accumulate(EmptyScores, vector_ids, 0), bm25_ids, 0)

\* a slip: the slice [:k] left out
sorted_ids_untruncated(vector_ids, bm25_ids, k) ==
    LET doc_scores == doc_scores_of(vector_ids, bm25_ids)
    IN  sorted_reverse(doc_scores.keys, doc_scores.score)

\* a slip: reverse=True left out, the lowest totals first
sorted_ids_ascending(vector_ids, bm25_ids, k) ==
    LET doc_scores == doc_scores_of(vector_ids, bm25_ids)
        descending == sorted_reverse(doc_scores.keys, doc_scores.score)
    IN  Take([i \in DOMAIN descending |-> descending[Len(descending) + 1 - i]], k)

sorted_ids_of(vector_ids, bm25_ids, k) ==
    LET doc_scores == doc_scores_of(vector_ids, bm25_ids)
    IN  Take(sorted_reverse(doc_scores.keys, doc_scores.score), k)

\* ------------------------------------------------------ dense collection
\* collection.query(query_texts=[query], n_results=n): dense is the order of
\* the ids of the collection by ascending distance to the question
vector_search(coll, dense, n) ==
    [i \in 1..Min(n, Len(dense)) |->
        [id |-> dense[i],
         text |-> coll[dense[i]].document,
         metadata |-> coll[dense[i]].metadata,
         score |-> [kind |-> "distance", value |-> i]]]

Ids(results) == [i \in DOMAIN results |-> results[i].id]

\* a record built without a "score" key
NoScore == [kind |-> "absent", value |-> 0]

\* collection.get(ids=ids): the records found, in the order asked; the
\* callers build {"id", "text", "metadata"} of each
RECURSIVE collection_get(_, _)
collection_get(coll, ids) ==
    IF ids = <<>> THEN <<>>
    ELSE (IF Head(ids) \in DOMAIN coll
          THEN << [id |-> Head(ids),
                   text |-> coll[Head(ids)].document,
                   metadata |-> coll[Head(ids)].metadata,
                   score |-> NoScore] >>
          ELSE <<>>)
         \o collection_get(coll, Tail(ids))

\* a slip: a get by id inside the loop over bm25_results, one call for
\* every sparse hit the vector search did not return
get_calls_in_loop(vector_ids, bm25_ids, sorted_ids) ==
    LET missing == SelectSeq(bm25_ids, LAMBDA did : did \notin Range(vector_ids))
    IN  [i \in DOMAIN missing |-> <<missing[i]>>]

\* the get-by-id calls of one hybrid search, each with the ids it asks for:
\* ids_to_fetch = [did for did in sorted_ids if did not in doc_map], and one
\* collection.get(ids=ids_to_fetch) if that list is not empty
get_calls(vector_ids, bm25_ids, sorted_ids) ==
    LET ids_to_fetch == SelectSeq(sorted_ids, LAMBDA did : did \notin Range(vector_ids))
    IN  IF ids_to_fetch = <<>> THEN <<>> ELSE <<ids_to_fetch>>

\* np.argsort(bm25_scores)[::-1][:top_n]: the indices by descending score;
\* the order of equal scores is the sort kernel's
top_indices_of(bm25_scores, top_n) ==
    {Take(p, top_n) : p \in {q \in Orderings(DOMAIN bm25_scores) :
        \A i, j \in DOMAIN q : i < j => bm25_scores[q[i]] >= bm25_scores[q[j]]}}

\* ------------------------------------------- HierarchicalChromaStore
VARIABLES
    child_collection,   \* self.child_collection: id -> [document, metadata]
    parent_collection,  \* self.parent_collection: id -> [document, metadata]
    bm25_child,         \* self.bm25_child: NoBM25 or a KoreanBM25 object
    child_doc_ids,      \* self.child_doc_ids
    child_docs,         \* self.child_docs
    ret                 \* the call that has just returned or raised, with its
                        \* arguments, what similarity_search answers for them
                        \* (similar) and the warnings it logged; Idle between
                        \* calls

\* ------------------------------------------------- ChromaHybridStore
VARIABLES
    collection,         \* self.collection: id -> [document, metadata]
    bm25,               \* self.bm25: NotBuilt or a BM25Okapi
    doc_ids_for_bm25,   \* self.doc_ids_for_bm25
    docs_for_bm25       \* self.docs_for_bm25

\* the class of the store this run constructs
VARIABLES store_class

\* ------------------------------------------------ the fusion step alone
VARIABLES
    fusion              \* one run of the RRF fusion: the two ranked id lists and
                        \* k it is given, then doc_scores and sorted_ids

\* ------------------------------- a rebuild and a query, step by step
VARIABLES
    wpc,                \* the writer's place in add_hierarchical_document
    wresult,            \* the writer's local: result of child_collection.get()
    rpc,                \* the reader's place in _hybrid_search_child
    robs,               \* what the reader has read of the index so far
    snapshots           \* the index snapshots completed so far

\* ------------------------------ a KoreanBM25 object used on its own
VARIABLES
    index,              \* the KoreanBM25 object: NoBM25 when none is in use
    call                \* the last call on it: its arguments, its result or
                        \* error, the documents of the last fit that returned
                        \* (fitted) and corpus_tokenized before the call (prior)

\* ------------------------------- a KoreanTokenizer used on its own
VARIABLES
    tokenizer_object,   \* the KoreanTokenizer: use_morphs and tokenizer (the
                        \* analyzer handle, "None" for None)
    stopwords_order,    \* the order in which this run of the program iterates
                        \* the stopwords set literal (string hashing is seeded
                        \* once per process)
    tcall,              \* the last call on the tokenizer: arguments and result
    fell_back           \* an earlier call fell back to _simple_tokenize

tokVars == <<tokenizer_object, stopwords_order, tcall, fell_back>>

\* ------------------------------------------------------ GRPCClientPool
VARIABLES
    channels,           \* self.channels of the one pool object: target -> channel
    lock_holder,        \* the task inside `async with self._lock`, or "none"
    task_pc,            \* each task's place in get_client / close_all
    task_target,        \* the target of the task's get_client call
    closing,            \* close_all: the targets its loop has still to close
    next_channel,       \* the number of channels grpc.aio.insecure_channel has
                        \* made; channel n is the n-th object it returned
    made,               \* target -> the channels created for it since the last
                        \* close_all
    handed              \* the (target, channel) pairs get_client has returned
                        \* since the last close_all

poolVars == <<channels, lock_holder, task_pc, task_target, closing, next_channel,
              made, handed>>

\* ------------------------------------------------------ retry_llm_call
VARIABLES
    max_attempts,       \* the decorator's max_attempts
    retry_on,           \* the decorator's retry_on: the exception types retried
    retry_pc,           \* the wrapper's place: idle, attempt, sleeping, done
    attempt_number,     \* tenacity's attempt_number of the call under way
    invocations,        \* what each invocation of func did in this call
    wrapper_result      \* what the wrapper returned or raised

retryVars == <<max_attempts, retry_on, retry_pc, attempt_number, invocations,
               wrapper_result>>
libVars == <<tokVars, poolVars, retryVars>>

bmVars == <<index, call>>
concVars == <<wpc, wresult, rpc, robs, snapshots>>
otherVars == <<fusion, concVars, bmVars, libVars>>

hierVars == <<child_collection, parent_collection, bm25_child, child_doc_ids, child_docs>>
flatVars == <<collection, bm25, doc_ids_for_bm25, docs_for_bm25>>
storeVars == <<store_class, hierVars, flatVars>>
vars == <<storeVars, ret, fusion, concVars, bmVars, libVars>>

Idle == [op |-> "idle", status |-> "ok"]

\* the sparse index fields of a store object
Self == [bm25_child |-> bm25_child, child_doc_ids |-> child_doc_ids, child_docs |-> child_docs]

\* a slip: __init__ creating the KoreanBM25 object before any fit
UnbuiltWithObject == [bm25_child |-> KoreanBM25, child_doc_ids |-> <<>>, child_docs |-> <<>>]

\* the fields as __init__ sets them before its _refresh_bm25
Unbuilt == [bm25_child |-> NoBM25, child_doc_ids |-> <<>>, child_docs |-> <<>>]

Reverse(s) == [i \in DOMAIN s |-> s[Len(s) + 1 - i]]

\* a slip: the ids kept in another order than the documents
_refresh_bm25_unaligned(self, coll, get_raises, order) ==
    IF get_raises \/ DOMAIN coll = {} THEN self
    ELSE LET documents == [i \in DOMAIN order |-> coll[order[i]].document]
         IN  [bm25_child |-> fit(KoreanBM25, documents),
              child_doc_ids |-> Reverse(order),
              child_docs |-> documents]

\* a slip: the index keyed by the parent id of each chunk
_refresh_bm25_parent_ids(self, coll, get_raises, order) ==
    IF get_raises \/ DOMAIN coll = {} THEN self
    ELSE LET documents == [i \in DOMAIN order |-> coll[order[i]].document]
         IN  [bm25_child |-> fit(KoreanBM25, documents),
              child_doc_ids |-> [i \in DOMAIN order |-> coll[order[i]].metadata.parent_id],
              child_docs |-> documents]

\* _refresh_bm25: count() / get() raising is caught and logged; an empty
\* collection returns early; otherwise the three fields are replaced by what
\* get() returned (order: the ids in the order get() lists them)
_refresh_bm25(self, coll, get_raises, order) ==
    IF get_raises \/ DOMAIN coll = {} THEN self
    ELSE LET documents == [i \in DOMAIN order |-> coll[order[i]].document]
         IN  [bm25_child |-> fit(KoreanBM25, documents),
              child_doc_ids |-> order,
              child_docs |-> documents]

\* __init__ over the persisted collections: the fields start unbuilt, then
\* _refresh_bm25 runs
Construct ==
    \E get_raises \in BOOLEAN, order \in Orderings(DOMAIN child_collection) :
        LET self == _refresh_bm25(Unbuilt, child_collection, get_raises, order)
        IN  /\ store_class = "hierarchical"
            /\ ret = Idle
            /\ UNCHANGED otherVars
            /\ bm25_child' = self.bm25_child
            /\ child_doc_ids' = self.child_doc_ids
            /\ child_docs' = self.child_docs
            /\ ret' = [op |-> "init", status |-> "ok"]
            /\ UNCHANGED <<store_class, flatVars, child_collection, parent_collection>>

\* add_hierarchical_document(doc).  completed is the number of collection
\* writes done when the call raises (a section or table lacks a field it
\* reads, or a collection add fails); completed = Len(writes) is the normal
\* return, after _refresh_bm25.
add_hierarchical_document ==
    \E doc \in Documents :
        LET writes == Writes(doc, doc.sections)
        IN  \E completed \in 0..Len(writes) :
                LET children == Written(child_collection, "child", writes, completed)
                    parents == Written(parent_collection, "parent", writes, completed)
                IN  /\ store_class = "hierarchical"
                    /\ ret = Idle
                    /\ UNCHANGED otherVars
                    /\ UNCHANGED <<store_class, flatVars>>
                    /\ child_collection' = children
                    /\ parent_collection' = parents
                    /\ IF completed < Len(writes)
                       THEN /\ UNCHANGED <<bm25_child, child_doc_ids, child_docs>>
                            /\ ret' = [op |-> "add", status |-> "raised",
                                       document_id |-> doc.document_id,
                                       completed |-> completed]
                       ELSE \E get_raises \in BOOLEAN, order \in Orderings(DOMAIN children) :
                                LET self == _refresh_bm25(Self, children, get_raises, order)
                                IN  /\ bm25_child' = self.bm25_child
                                    /\ child_doc_ids' = self.child_doc_ids
                                    /\ child_docs' = self.child_docs
                                    /\ ret' = [op |-> "add", status |-> "ok",
                                               document_id |-> doc.document_id,
                                               child_count |-> CountWrites(writes, "child"),
                                               parent_count |-> CountWrites(writes, "parent"),
                                               returned |-> Len(writes)]

\* _vector_search_child(query, k)
_vector_search_child(coll, dense, k) == vector_search(coll, dense, k)

\* _hybrid_search_child past its first line (self.bm25_child is set):
\* bm25_scores is what get_scores returned, top_indices what argsort gave
_hybrid_search_child(self, coll, dense, bm25_scores, top_indices, k) ==
    LET vector_results == _vector_search_child(coll, dense, k * 2)
        bm25_results == [i \in DOMAIN top_indices |->
                            [id |-> self.child_doc_ids[top_indices[i]],
                             text |-> self.child_docs[top_indices[i]],
                             score |-> bm25_scores[top_indices[i]]]]
        sorted_ids == sorted_ids_of(Ids(vector_results), Ids(bm25_results), k)
        in_vector(did) == did \in Range(Ids(vector_results))
        ids_to_fetch == SelectSeq(sorted_ids, LAMBDA did : ~in_vector(did))
        fetched == collection_get(coll, ids_to_fetch)
        doc_map(did) ==
            IF in_vector(did)
            THEN vector_results[CHOOSE i \in DOMAIN vector_results : vector_results[i].id = did]
            ELSE fetched[CHOOSE i \in DOMAIN fetched : fetched[i].id = did]
        in_doc_map(did) == in_vector(did) \/ did \in Range(Ids(fetched))
        kept == SelectSeq(sorted_ids, in_doc_map)
    IN  [vector_results |-> vector_results,
         bm25_results |-> bm25_results,
         doc_scores |-> doc_scores_of(Ids(vector_results), Ids(bm25_results)).score,
         sorted_ids |-> sorted_ids,
         ids_to_fetch |-> ids_to_fetch,
         gets |-> get_calls(Ids(vector_results), Ids(bm25_results), sorted_ids),
         final_results |-> [i \in DOMAIN kept |-> doc_map(kept[i])]]

\* the parent ids of the results, each once: set(), then list() in the
\* order the set iterates
ParentIdSet(child_results) ==
    {child_results[i].metadata.parent_id : i \in DOMAIN child_results} \ {None}

\* a slip: the parent ids kept as a list, one entry per child
WithParentContextList(child_results, parents, parent_ids) ==
    LET listed == [i \in DOMAIN child_results |-> child_results[i].metadata.parent_id]
    IN  [matched_children |-> child_results,
         parent_contexts |-> collection_get(parents, listed),
         parent_ids |-> listed]

\* query_with_parent_context past the child search
WithParentContext(child_results, parents, parent_ids) ==
    [matched_children |-> child_results,
     parent_contexts |-> collection_get(parents, parent_ids),
     parent_ids |-> parent_ids]

\* a slip: the dense calls wrapped in try/except, an empty list returned
\* when one raises
dense_call_swallowed(failed_call, request) ==
    [op |-> request.op, status |-> "ok", question |-> request.question,
     k |-> request.k, failed_call |-> failed_call, result |-> <<>>]

\* no try/except stands around the calls the query methods make on the dense
\* store (collection.query, the get by id of the sparse-only hits, the get by
\* id of the parents): the exception of the call leaves the method, and
\* nothing is returned
dense_call_raises(failed_call, request) ==
    [op |-> request.op, status |-> "raised", question |-> request.question,
     k |-> request.k, failed_call |-> failed_call]

\* query_with_parent_context(question, k, use_hybrid)
query_with_parent_context ==
    /\ store_class = "hierarchical"
    /\ ret = Idle
    /\ UNCHANGED otherVars
    /\ UNCHANGED storeVars
    /\ \E question \in Questions, k \in 1..MaxK, use_hybrid \in BOOLEAN :
       LET request == [op |-> "query", question |-> question, k |-> k]
       IN  \/ \* child_collection.query raises
              ret' = dense_call_raises("query", request)
           \/ \E dense \in Orderings(DOMAIN child_collection) :
              IF use_hybrid /\ bm25_child.object
              THEN IF ~bm25_child.bm25.built
                   THEN \* KoreanBM25.get_scores: ValueError("BM25 index not built...")
                        ret' = [op |-> "query", status |-> "raised", question |-> question,
                                k |-> k, use_hybrid |-> use_hybrid, path |-> "hybrid",
                                failed_call |-> "none"]
                   ELSE
                   \E bm25_scores \in get_scores(bm25_child, question) :
                   \E top_indices \in top_indices_of(bm25_scores, Min(Len(bm25_scores), k * 2)) :
                       LET search == _hybrid_search_child(Self, child_collection, dense,
                                                          bm25_scores, top_indices, k)
                       IN  \/ \* child_collection.get(ids=ids_to_fetch) raises
                              /\ search.gets # <<>>
                              /\ ret' = dense_call_raises("get", request)
                           \/ \* parent_collection.get(ids=list(parent_ids)) raises
                              /\ ParentIdSet(search.final_results) # {}
                              /\ ret' = dense_call_raises("parent_get", request)
                           \/ \E parent_ids \in Orderings(ParentIdSet(search.final_results)) :
                               ret' = [op |-> "query", status |-> "ok", question |-> question,
                                       k |-> k, use_hybrid |-> use_hybrid, path |-> "hybrid",
                                       warnings |-> <<>>,
                                       failed_call |-> "none",
                                       doc_scores |-> search.doc_scores,
                                       gets |-> search.gets,
                                       similar |-> _vector_search_child(child_collection,
                                                                        dense, k),
                                       result |-> WithParentContext(search.final_results,
                                                     parent_collection, parent_ids)]
              ELSE LET child_results == _vector_search_child(child_collection, dense, k)
                   IN  \/ \* parent_collection.get(ids=list(parent_ids)) raises
                          /\ ParentIdSet(child_results) # {}
                          /\ ret' = dense_call_raises("parent_get", request)
                       \/ \E parent_ids \in Orderings(ParentIdSet(child_results)) :
                           ret' = [op |-> "query", status |-> "ok", question |-> question,
                                   k |-> k, use_hybrid |-> use_hybrid, path |-> "vector",
                                   warnings |-> <<>>,
                                   failed_call |-> "none",
                                   similar |-> child_results,
                                   result |-> WithParentContext(child_results,
                                                 parent_collection, parent_ids)]

\* ------------------------------------------- ChromaHybridStore actions
\* the texts add_documents is called with; a text is its words, separated
\* by single spaces
Texts == { <<"sagwa">>, <<"yeonpil", "sagwa">>, <<>> }

\* the ids uuid.uuid4() yields, in the order it yields them
Uuid(n) ==
    CASE n = 1 -> "u1" [] n = 2 -> "u2" [] n = 3 -> "u3" [] n = 4 -> "u4" [] OTHER -> "u5"

\* doc.split(" ")
split_space(text) == IF text = <<>> THEN <<"">> ELSE text

FlatSelf == [bm25 |-> bm25, doc_ids_for_bm25 |-> doc_ids_for_bm25,
             docs_for_bm25 |-> docs_for_bm25]

FlatUnbuilt == [bm25 |-> NotBuilt, doc_ids_for_bm25 |-> <<>>, docs_for_bm25 |-> <<>>]

\* ChromaHybridStore._refresh_bm25
flat_refresh_bm25(self, coll, get_raises, order) ==
    IF get_raises \/ DOMAIN coll = {} THEN self
    ELSE LET documents == [i \in DOMAIN order |-> coll[order[i]].document]
         IN  [bm25 |-> BM25Okapi([i \in DOMAIN documents |-> split_space(documents[i])]),
              doc_ids_for_bm25 |-> order,
              docs_for_bm25 |-> documents]

\* ChromaHybridStore.__init__ over the persisted collection
FlatConstruct ==
    \E get_raises \in BOOLEAN, order \in Orderings(DOMAIN collection) :
        LET self == flat_refresh_bm25(FlatUnbuilt, collection, get_raises, order)
        IN  /\ store_class = "flat"
            /\ ret = Idle
            /\ UNCHANGED otherVars
            /\ bm25' = self.bm25
            /\ doc_ids_for_bm25' = self.doc_ids_for_bm25
            /\ docs_for_bm25' = self.docs_for_bm25
            /\ ret' = [op |-> "init", status |-> "ok"]
            /\ UNCHANGED <<store_class, hierVars, collection>>

\* add_documents(texts, metadatas): one text per call here; an empty list
\* returns at once; collection.add raising propagates before the refresh
add_documents ==
    \E texts \in {<<>>} \cup {<<t>> : t \in Texts}, add_raises \in BOOLEAN :
        /\ store_class = "flat"
        /\ ret = Idle
        /\ UNCHANGED otherVars
        /\ Cardinality(DOMAIN collection) < MaxDocs
        /\ UNCHANGED <<store_class, hierVars>>
        /\ IF texts = <<>> \/ add_raises
           THEN /\ UNCHANGED flatVars
                /\ ret' = [op |-> "add_documents",
                           status |-> IF texts = <<>> THEN "ok" ELSE "raised"]
           ELSE LET id == Uuid(Cardinality(DOMAIN collection) + 1)
                    added == Put(collection, id,
                                 [document |-> texts[1], metadata |-> [source |-> id]])
                IN  \E get_raises \in BOOLEAN, order \in Orderings(DOMAIN added) :
                        LET self == flat_refresh_bm25(FlatSelf, added, get_raises, order)
                        IN  /\ collection' = added
                            /\ bm25' = self.bm25
                            /\ doc_ids_for_bm25' = self.doc_ids_for_bm25
                            /\ docs_for_bm25' = self.docs_for_bm25
                            /\ ret' = [op |-> "add_documents", status |-> "ok"]

\* ChromaHybridStore.similarity_search(query, k)
similarity_search(coll, dense, k) == vector_search(coll, dense, k)

\* ChromaHybridStore.hybrid_search past its first line (self.bm25 is set)
flat_hybrid_search(self, coll, dense, bm25_scores, top_indices, k) ==
    LET vector_results == similarity_search(coll, dense, k * 2)
        bm25_results == [i \in DOMAIN top_indices |->
                            [id |-> self.doc_ids_for_bm25[top_indices[i]],
                             text |-> self.docs_for_bm25[top_indices[i]],
                             score |-> bm25_scores[top_indices[i]]]]
        sorted_ids == sorted_ids_of(Ids(vector_results), Ids(bm25_results), k)
        in_doc_map(did) == did \in Range(Ids(vector_results))
        ids_to_fetch == SelectSeq(sorted_ids, LAMBDA did : ~in_doc_map(did))
        resp == collection_get(coll, ids_to_fetch)
        in_fetched(did) == did \in Range(Ids(resp))
        kept == SelectSeq(sorted_ids, LAMBDA did : in_doc_map(did) \/ in_fetched(did))
        final(did) ==
            IF in_doc_map(did)
            THEN vector_results[CHOOSE i \in DOMAIN vector_results : vector_results[i].id = did]
            ELSE resp[CHOOSE i \in DOMAIN resp : resp[i].id = did]
    IN  [vector_results |-> vector_results,
         bm25_results |-> bm25_results,
         doc_scores |-> doc_scores_of(Ids(vector_results), Ids(bm25_results)).score,
         sorted_ids |-> sorted_ids,
         ids_to_fetch |-> ids_to_fetch,
         gets |-> get_calls(Ids(vector_results), Ids(bm25_results), sorted_ids),
         final_results |-> [i \in DOMAIN kept |-> final(kept[i])]]

\* hybrid_search(query, k)
hybrid_search ==
    /\ store_class = "flat"
    /\ ret = Idle
    /\ UNCHANGED otherVars
    /\ UNCHANGED storeVars
    /\ \E question \in Questions, k \in 1..MaxK :
       LET request == [op |-> "hybrid_search", question |-> question, k |-> k]
       IN  \/ \* collection.query raises
              ret' = dense_call_raises("query", request)
           \/ \E dense \in Orderings(DOMAIN collection) :
              IF ~bm25.built
              THEN ret' = [op |-> "hybrid_search", status |-> "ok", question |-> question,
                           k |-> k, path |-> "vector",
                           failed_call |-> "none",
                           similar |-> similarity_search(collection, dense, k),
                           result |-> similarity_search(collection, dense, k)]
              ELSE \E bm25_scores \in bm25_get_scores(bm25, split_space(question)) :
                   \E top_indices \in top_indices_of(bm25_scores, Min(Len(bm25_scores), k * 2)) :
                       LET search == flat_hybrid_search(FlatSelf, collection, dense,
                                                        bm25_scores, top_indices, k)
                       IN  \/ \* collection.get(ids=ids_to_fetch) raises
                              /\ search.gets # <<>>
                              /\ ret' = dense_call_raises("get", request)
                           \/ ret' = [op |-> "hybrid_search", status |-> "ok",
                                      question |-> question, k |-> k, path |-> "hybrid",
                                      failed_call |-> "none",
                                      doc_scores |-> search.doc_scores,
                                      gets |-> search.gets,
                                      similar |-> similarity_search(collection, dense, k),
                                      result |-> search.final_results]

NoFusion == [vector_ids |-> <<>>, bm25_ids |-> <<>>, k |-> 1, stage |-> "none",
             doc_scores |-> EmptyScores, sorted_ids |-> <<>>]

NoObservation == [path |-> "none", corpus |-> <<>>, ids |-> <<>>, docs |-> <<>>]

\* a store object constructed over a new persist_dir
NewStore ==
    /\ child_collection = Empty
    /\ parent_collection = Empty
    /\ bm25_child = NoBM25
    /\ child_doc_ids = <<>>
    /\ child_docs = <<>>
    /\ collection = Empty
    /\ bm25 = NotBuilt
    /\ doc_ids_for_bm25 = <<>>
    /\ docs_for_bm25 = <<>>

\* no KoreanBM25 object is used apart from the store's
NoCall == [op |-> "none", status |-> "ok"]

NoIndexObject ==
    /\ index = NoBM25
    /\ call = NoCall

\* no KoreanTokenizer is used apart from the one inside KoreanBM25
NoTokenizerCall == [op |-> "none"]

NoTokenizer ==
    /\ tokenizer_object = [use_morphs |-> FALSE, tokenizer |-> "None"]
    /\ stopwords_order = <<>>
    /\ tcall = NoTokenizerCall
    /\ fell_back = FALSE

\* the tasks of the program: two callers of get_client, one of close_all
Tasks == {"c1", "c2", "x"}

Targets == {"localhost:50051", "localhost:50052"}

\* no GRPCClientPool is used
NoPool ==
    /\ channels = Empty
    /\ lock_holder = "none"
    /\ task_pc = [t \in Tasks |-> "off"]
    /\ task_target = [t \in Tasks |-> None]
    /\ closing = <<>>
    /\ next_channel = 0
    /\ made = [target \in Targets |-> {}]
    /\ handed = {}

NoResult == [status |-> "none", value |-> [kind |-> "none", type |-> None, value |-> None],
             attempt |-> 0]

\* no decorated function is called
NoRetry ==
    /\ max_attempts = 3
    /\ retry_on = {"Exception"}
    /\ retry_pc = "off"
    /\ attempt_number = 0
    /\ invocations = <<>>
    /\ wrapper_result = NoResult

NoLibraryUse ==
    /\ NoTokenizer
    /\ NoPool
    /\ NoRetry

NoThreads ==
    /\ wpc = "idle"
    /\ wresult = <<>>
    /\ rpc = "idle"
    /\ robs = NoObservation
    /\ snapshots = {}

Init ==
    /\ NoIndexObject
    /\ NoLibraryUse
    /\ store_class \in {"hierarchical", "flat"}
    /\ NewStore
    /\ ret = [op |-> "init", status |-> "ok"]
    /\ fusion = NoFusion
    /\ NoThreads

\* the caller takes the result (or the exception) of the call
Return ==
    /\ ret # Idle
    /\ ret' = Idle
    /\ UNCHANGED otherVars
    /\ UNCHANGED storeVars

Next ==
    \/ Return
    \/ Construct
    \/ add_hierarchical_document
    \/ query_with_parent_context
    \/ FlatConstruct
    \/ add_documents
    \/ hybrid_search

Spec == Init /\ [][Next]_vars

\* ------------------------------------------------- the fusion on its own
\* lines 284-300 of _hybrid_search_child (lines 149-166 of hybrid_search),
\* applied to ranked id lists of every shape: no id twice within a list, at
\* most 2k ids in a list
MaxFuseIds == 3

FuseIds == {Uuid(n) : n \in 1..MaxFuseIds}

RankedLists(k) ==
    UNION {Orderings(T) : T \in {U \in SUBSET FuseIds : Cardinality(U) <= 2 * k}}

InitFuse ==
    /\ NoIndexObject
    /\ NoLibraryUse
    /\ store_class = "hierarchical"
    /\ NewStore
    /\ ret = Idle
    /\ NoThreads
    /\ \E k \in 1..MaxK :
        \E vector_ids \in RankedLists(k), bm25_ids \in RankedLists(k) :
            fusion = [vector_ids |-> vector_ids, bm25_ids |-> bm25_ids, k |-> k,
                      stage |-> "start", doc_scores |-> EmptyScores, sorted_ids |-> <<>>]

\* for rank, item in enumerate(vector_results)
FuseVector ==
    /\ fusion.stage = "start"
    /\ fusion' = [fusion EXCEPT !.stage = "vector",
                                !.doc_scores = Accumulate(EmptyScores, fusion.vector_ids, 0)]
    /\ UNCHANGED <<storeVars, ret, concVars, bmVars, libVars>>

\* for rank, item in enumerate(bm25_results)
FuseBM25 ==
    /\ fusion.stage = "vector"
    /\ fusion' = [fusion EXCEPT !.stage = "bm25",
                                !.doc_scores = Accumulate(fusion.doc_scores, fusion.bm25_ids, 0)]
    /\ UNCHANGED <<storeVars, ret, concVars, bmVars, libVars>>

\* sorted_ids = sorted(doc_scores.keys(), key=..., reverse=True)[:k]
FuseSort ==
    /\ fusion.stage = "bm25"
    /\ fusion' = [fusion EXCEPT !.stage = "sorted",
                                !.sorted_ids = sorted_ids_of(fusion.vector_ids,
                                                             fusion.bm25_ids, fusion.k)]
    /\ UNCHANGED <<storeVars, ret, concVars, bmVars, libVars>>

NextFuse ==
    \/ FuseVector
    \/ FuseBM25
    \/ FuseSort

SpecFuse == InitFuse /\ [][NextFuse]_vars

\* ------------------------------------- a query during an index rebuild
\* One thread in add_hierarchical_document and one in query_with_parent_context
\* (use_hybrid=True) on the same HierarchicalChromaStore. Neither method takes
\* a lock, so the threads interleave between the statements that read or
\* write the attributes of the store.
Snapshot(ids, docs, corpus) == [ids |-> ids, docs |-> docs, corpus |-> corpus]

\* a store that holds one document, its index built by the add
InitConc ==
    /\ NoIndexObject
    /\ NoLibraryUse
    /\ store_class = "hierarchical"
    /\ collection = Empty
    /\ bm25 = NotBuilt
    /\ doc_ids_for_bm25 = <<>>
    /\ docs_for_bm25 = <<>>
    /\ ret = Idle
    /\ fusion = NoFusion
    /\ wpc = "idle"
    /\ wresult = <<>>
    /\ rpc = "idle"
    /\ robs = NoObservation
    /\ \E doc \in Documents :
        LET writes == Writes(doc, doc.sections)
            children == Written(Empty, "child", writes, Len(writes))
        IN  \E order \in Orderings(DOMAIN children) :
                LET self == _refresh_bm25(Unbuilt, children, FALSE, order)
                IN  /\ child_collection = children
                    /\ parent_collection = Written(Empty, "parent", writes, Len(writes))
                    /\ bm25_child = self.bm25_child
                    /\ child_doc_ids = self.child_doc_ids
                    /\ child_docs = self.child_docs
                    /\ snapshots = {Snapshot(self.child_doc_ids, self.child_docs,
                                             self.bm25_child.bm25.corpus)}

writerOnly == <<store_class, flatVars, ret, fusion, rpc, robs, bmVars, libVars>>

\* add_hierarchical_document lines 110-155: the writes to the collections
WriterAdd ==
    \E doc \in Documents :
        LET writes == Writes(doc, doc.sections)
        IN  /\ wpc = "idle"
            /\ wpc' = "written"
            /\ child_collection' = Written(child_collection, "child", writes, Len(writes))
            /\ parent_collection' = Written(parent_collection, "parent", writes, Len(writes))
            /\ UNCHANGED <<bm25_child, child_doc_ids, child_docs, wresult, snapshots>>
            /\ UNCHANGED writerOnly

\* _refresh_bm25 lines 68-73: count() and get(); an exception ends the rebuild
WriterGet ==
    \E get_raises \in BOOLEAN, order \in Orderings(DOMAIN child_collection) :
        /\ wpc = "written"
        /\ IF get_raises
           THEN wpc' = "done" /\ UNCHANGED wresult
           ELSE /\ wpc' = "got"
                /\ wresult' = [ids |-> order,
                               documents |-> [i \in DOMAIN order |->
                                                child_collection[order[i]].document]]
        /\ UNCHANGED <<hierVars, snapshots>>
        /\ UNCHANGED writerOnly

\* line 75: self.child_docs = result['documents']
WriterSetDocs ==
    /\ wpc = "got"
    /\ wpc' = "docs"
    /\ child_docs' = wresult.documents
    /\ UNCHANGED <<child_collection, parent_collection, bm25_child, child_doc_ids,
                   wresult, snapshots>>
    /\ UNCHANGED writerOnly

\* line 76: self.child_doc_ids = result['ids']
WriterSetIds ==
    /\ wpc = "docs"
    /\ wpc' = "ids"
    /\ child_doc_ids' = wresult.ids
    /\ UNCHANGED <<child_collection, parent_collection, bm25_child, child_docs,
                   wresult, snapshots>>
    /\ UNCHANGED writerOnly

\* line 79: self.bm25_child = KoreanBM25(use_morphs=True)
WriterNewBM25 ==
    /\ wpc = "ids"
    /\ wpc' = "object"
    /\ bm25_child' = KoreanBM25
    /\ UNCHANGED <<child_collection, parent_collection, child_doc_ids, child_docs,
                   wresult, snapshots>>
    /\ UNCHANGED writerOnly

\* fit line 108: self.corpus_tokenized = self.tokenizer.tokenize_batch(documents)
WriterTokenize ==
    /\ wpc = "object"
    /\ wpc' = "tokenized"
    /\ bm25_child' = [bm25_child EXCEPT !.corpus_tokenized = tokenize_batch(child_docs)]
    /\ UNCHANGED <<child_collection, parent_collection, child_doc_ids, child_docs,
                   wresult, snapshots>>
    /\ UNCHANGED writerOnly

\* fit line 109: self.bm25 = self.BM25Okapi(self.corpus_tokenized)
WriterFit ==
    /\ wpc = "tokenized"
    /\ wpc' = "done"
    /\ bm25_child' = [bm25_child EXCEPT !.bm25 = BM25Okapi(bm25_child.corpus_tokenized)]
    /\ snapshots' = snapshots \cup {Snapshot(child_doc_ids, child_docs,
                                             bm25_child.corpus_tokenized)}
    /\ UNCHANGED <<child_collection, parent_collection, child_doc_ids, child_docs, wresult>>
    /\ UNCHANGED writerOnly

readerOnly == <<storeVars, ret, fusion, wpc, wresult, snapshots, bmVars, libVars>>

\* query_with_parent_context line 215: if use_hybrid and self.bm25_child
ReaderCheck ==
    /\ rpc = "idle"
    /\ IF bm25_child.object
       THEN rpc' = "hybrid" /\ UNCHANGED robs
       ELSE rpc' = "done" /\ robs' = [robs EXCEPT !.path = "vector"]
    /\ UNCHANGED readerOnly

\* _hybrid_search_child lines 265-269: the second test of self.bm25_child,
\* then the vector search
ReaderSearch ==
    /\ rpc = "hybrid"
    /\ IF bm25_child.object
       THEN rpc' = "searched" /\ UNCHANGED robs
       ELSE rpc' = "done" /\ robs' = [robs EXCEPT !.path = "vector"]
    /\ UNCHANGED readerOnly

\* line 272: self.bm25_child.get_scores(query), which raises ValueError on an
\* object that has not been fitted; the scores are those of the corpus the
\* ranking structure holds
ReaderScores ==
    /\ rpc = "searched"
    /\ IF bm25_child.bm25.built
       THEN /\ rpc' = "scored"
            /\ robs' = [robs EXCEPT !.path = "hybrid", !.corpus = bm25_child.bm25.corpus]
       ELSE /\ rpc' = "done"
            /\ robs' = [robs EXCEPT !.path = "raised"]
    /\ UNCHANGED readerOnly

\* line 279: "id": self.child_doc_ids[idx]
ReaderIds ==
    /\ rpc = "scored"
    /\ rpc' = "ids"
    /\ robs' = [robs EXCEPT !.ids = child_doc_ids]
    /\ UNCHANGED readerOnly

\* line 280: "text": self.child_docs[idx]
ReaderDocs ==
    /\ rpc = "ids"
    /\ rpc' = "done"
    /\ robs' = [robs EXCEPT !.docs = child_docs]
    /\ UNCHANGED readerOnly

NextConc ==
    \/ WriterAdd
    \/ WriterGet
    \/ WriterSetDocs
    \/ WriterSetIds
    \/ WriterNewBM25
    \/ WriterTokenize
    \/ WriterFit
    \/ ReaderCheck
    \/ ReaderSearch
    \/ ReaderScores
    \/ ReaderIds
    \/ ReaderDocs

SpecConc == InitConc /\ [][NextConc]_vars

\* ------------------------------------ searches over a larger collection
\* A sparse hit outside the vector results reaches the first k only when the
\* collection holds more than 2k chunks and few of the sparse hits are among
\* the 2k nearest.  The stores here hold five chunks and an index that was
\* built when they held their first chunks: the index reads of the later
\* adds failed (_refresh_bm25 logs and returns, lines 82-83; chroma.py 78-79).
LargeDocument ==
    [document_id |-> "d3",
     sections |-> << Section("s3", "iljeong",
                       << Table("t3", "sigan", <<"yeonpil">>),
                          Table("t4", "sigan", <<"sagwareul">>),
                          Table("t5", "seongjeok", <<"jiugae">>) >>) >>]

FirstDocument == CHOOSE doc \in Documents : doc.document_id = "d1"

SearchTexts == << <<"yeonpil">>, <<"yeonpil", "sagwa">>, <<"sagwa">>, <<"jiugae">>, <<>> >>

\* the index of a ChromaHybridStore was built over its first 1..MaxIndexed
\* documents
MaxIndexed == 2

FlatStored(n) ==
    [id \in {Uuid(i) : i \in 1..n} |->
        LET i == CHOOSE j \in 1..n : Uuid(j) = id
        IN  [document |-> SearchTexts[i], metadata |-> [source |-> id]]]

InitSearch ==
    /\ NoIndexObject
    /\ NoLibraryUse
    /\ ret = Idle
    /\ fusion = NoFusion
    /\ NoThreads
    /\ \/ /\ store_class = "hierarchical"
          /\ collection = Empty
          /\ bm25 = NotBuilt
          /\ doc_ids_for_bm25 = <<>>
          /\ docs_for_bm25 = <<>>
          /\ LET first == Writes(FirstDocument, FirstDocument.sections)
                 large == Writes(LargeDocument, LargeDocument.sections)
                 indexed == Written(Empty, "child", first, Len(first))
             IN  /\ child_collection = Written(indexed, "child", large, Len(large))
                 /\ parent_collection = Written(Written(Empty, "parent", first, Len(first)),
                                                "parent", large, Len(large))
                 /\ \E order \in Orderings(DOMAIN indexed) :
                        LET self == _refresh_bm25(Unbuilt, indexed, FALSE, order)
                        IN  /\ bm25_child = self.bm25_child
                            /\ child_doc_ids = self.child_doc_ids
                            /\ child_docs = self.child_docs
       \/ /\ store_class = "flat"
          /\ child_collection = Empty
          /\ parent_collection = Empty
          /\ bm25_child = NoBM25
          /\ child_doc_ids = <<>>
          /\ child_docs = <<>>
          /\ collection = FlatStored(Len(SearchTexts))
          /\ \E m \in 1..MaxIndexed :
                \E order \in Orderings(DOMAIN FlatStored(m)) :
                    LET self == flat_refresh_bm25(FlatUnbuilt, FlatStored(m), FALSE, order)
                    IN  /\ bm25 = self.bm25
                        /\ doc_ids_for_bm25 = self.doc_ids_for_bm25
                        /\ docs_for_bm25 = self.docs_for_bm25

NextSearch ==
    \/ Return
    \/ query_with_parent_context
    \/ hybrid_search

SpecSearch == InitSearch /\ [][NextSearch]_vars

\* --------------------------------------------- KoreanBM25 on its own
\* A caller constructs a KoreanBM25 and calls fit, get_scores and search on
\* it.  Corpus positions are counted from 1 here (Python counts from 0).
MaxCorpus == 2

BMTexts == { <<"sagwareul">>, <<"yeonpil">>, <<"neun">> }

Corpora == UNION {[1..n -> BMTexts] : n \in 0..MaxCorpus}

\* rank_bm25: BM25Okapi(corpus) divides by the corpus size and by the size
\* of the vocabulary, so it raises ZeroDivisionError over a corpus that has
\* no document or no token
BM25OkapiRaises(corpus) == \A i \in DOMAIN corpus : corpus[i] = <<>>

\* s[:n] of Python
PySlice(s, n) ==
    IF n >= 0 THEN Take(s, n)
    ELSE IF Len(s) + n > 0 THEN SubSeq(s, 1, Len(s) + n) ELSE <<>>

NotBuiltError == "BM25 index not built. Call fit() first."

\* a slip: an index that has not been built answering with an empty list
KoreanBM25_get_scores_empty(index_object, query) ==
    IF ~index_object.bm25.built
    THEN {[status |-> "ok", error |-> None, result |-> <<>>]}
    ELSE {[status |-> "ok", error |-> None, result |-> scores] :
            scores \in get_scores(index_object, query)}

\* KoreanBM25.get_scores(query): the outcomes of the call
KoreanBM25_get_scores(index_object, query) ==
    IF ~index_object.bm25.built
    THEN {[status |-> "raised", error |-> NotBuiltError, result |-> <<>>]}
    ELSE {[status |-> "ok", error |-> None, result |-> scores] :
            scores \in get_scores(index_object, query)}

\* KoreanBM25.search(query, top_k): the outcomes of the call, each with the
\* scores it ranked
KoreanBM25_search(index_object, query, top_k) ==
    IF ~index_object.bm25.built
    THEN {[status |-> "raised", error |-> NotBuiltError, scores |-> <<>>, result |-> <<>>]}
    ELSE UNION {
            {[status |-> "ok", error |-> None, scores |-> scores,
              result |-> PySlice(ranked, top_k)] :
                ranked \in top_indices_of(scores, Len(scores))} :
            scores \in get_scores(index_object, query)}

InitBM25 ==
    /\ NoLibraryUse
    /\ store_class = "hierarchical"
    /\ NewStore
    /\ ret = Idle
    /\ fusion = NoFusion
    /\ NoThreads
    /\ index = KoreanBM25
    /\ call = [op |-> "init", status |-> "ok", fitted |-> <<>>]

bmOnly == <<storeVars, ret, fusion, concVars, libVars>>

\* between two calls on the object; fitted is kept
CallIdle == call.op \in {"init", "idle"}

\* the caller takes the result (or the exception) of the call
ReturnCall ==
    /\ index.object
    /\ ~CallIdle
    /\ call' = [op |-> "idle", status |-> "ok", fitted |-> call.fitted]
    /\ UNCHANGED index
    /\ UNCHANGED bmOnly

\* fit(documents): line 108 assigns corpus_tokenized, then line 109 builds
\* the BM25Okapi, or raises and leaves self.bm25 as it was
Fit ==
    /\ index.object
    /\ CallIdle
    /\ \E documents \in Corpora :
        /\ IF BM25OkapiRaises(tokenize_batch(documents))
           THEN /\ index' = [index EXCEPT !.corpus_tokenized = tokenize_batch(documents)]
                /\ call' = [op |-> "fit", status |-> "raised",
                            error |-> "ZeroDivisionError", documents |-> documents,
                            fitted |-> call.fitted, prior |-> index.corpus_tokenized]
           ELSE /\ index' = fit(index, documents)
                /\ call' = [op |-> "fit", status |-> "ok", error |-> None,
                            documents |-> documents,
                            fitted |-> documents, prior |-> index.corpus_tokenized]
        /\ UNCHANGED bmOnly

GetScores ==
    /\ index.object
    /\ CallIdle
    /\ \E query \in Questions :
        \E outcome \in KoreanBM25_get_scores(index, query) :
            /\ call' = [op |-> "get_scores", status |-> outcome.status,
                        error |-> outcome.error, query |-> query,
                        result |-> outcome.result, fitted |-> call.fitted]
            /\ UNCHANGED index
            /\ UNCHANGED bmOnly

Search ==
    /\ index.object
    /\ CallIdle
    /\ \E query \in Questions, top_k \in -1..MaxK :
        \E outcome \in KoreanBM25_search(index, query, top_k) :
            /\ call' = [op |-> "search", status |-> outcome.status,
                        error |-> outcome.error, query |-> query, top_k |-> top_k,
                        scores |-> outcome.scores,
                        result |-> outcome.result, fitted |-> call.fitted]
            /\ UNCHANGED index
            /\ UNCHANGED bmOnly

NextBM25 ==
    \/ ReturnCall
    \/ Fit
    \/ GetScores
    \/ Search

SpecBM25 == InitBM25 /\ [][NextBM25]_vars

\* ------------------------------------- KoreanTokenizer._simple_tokenize
\* A text is the sequence of its characters.  One Hangul syllable block is
\* one character of the source string, written here in Latin transliteration
\* ("hak", "eu", "ro", "neun"); " " is a blank, "!" a special character, "A"
\* an upper-case letter.
MaxText == 5

Chars == {"hak", "eu", "ro", "neun", " ", "!", "A"}

CharTexts == UNION {[1..n -> Chars] : n \in 0..MaxText}

\* text.lower()
lower(text) == [i \in DOMAIN text |-> IF text[i] = "A" THEN "a" ELSE text[i]]

\* re.sub(r'[^ga-hih a-z0-9\s%]', ' ', text): Hangul syllables, lower-case
\* letters, digits, whitespace and '%' stay, every other character becomes
\* a blank
re_sub(text) ==
    [i \in DOMAIN text |->
        IF text[i] \in {"hak", "eu", "ro", "neun", "a", " "} THEN text[i] ELSE " "]

\* text.split(): the maximal runs of characters that are not whitespace
RECURSIVE split_from(_, _)
split_from(text, token) ==
    IF text = <<>> THEN (IF token = <<>> THEN <<>> ELSE <<token>>)
    ELSE IF Head(text) = " "
         THEN (IF token = <<>> THEN <<>> ELSE <<token>>) \o split_from(Tail(text), <<>>)
         ELSE split_from(Tail(text), Append(token, Head(text)))

split(text) == split_from(text, <<>>)

\* the stopwords set of line 69, in the order the literal lists it
StopwordList ==
    << <<"eun">>, <<"neun">>, <<"i">>, <<"ga">>, <<"eul">>, <<"reul">>, <<"ui">>,
       <<"e">>, <<"wa">>, <<"gwa">>, <<"do">>, <<"man">>, <<"ro">>, <<"eu", "ro">> >>

stopwords == Range(StopwordList)

\* the orders `for josa in stopwords` can take: a set of str iterates by
\* hash, and str hashes are seeded per process.  Only "ro" and "euro" can
\* both end one token, so one order with "ro" first and one with "euro"
\* first stand for all of them.
StopwordOrders == {StopwordList, Reverse(StopwordList)}

\* token.endswith(josa)
endswith(token, josa) ==
    /\ Len(token) >= Len(josa)
    /\ SubSeq(token, Len(token) - Len(josa) + 1, Len(token)) = josa

\* lines 77-80: the first josa of the iteration that ends the token and is
\* shorter than it is cut off, then the loop breaks
strip_josa(token, order) ==
    LET hits == {i \in DOMAIN order :
                    endswith(token, order[i]) /\ Len(token) > Len(order[i])}
    IN  IF hits = {} THEN token
        ELSE LET first == CHOOSE i \in hits : \A j \in hits : i <= j
             IN  SubSeq(token, 1, Len(token) - Len(order[first]))

\* a slip: the length test made after the particle is cut off
filter_token_length_last(token, order) ==
    LET stripped == strip_josa(token, order)
    IN  IF Len(stripped) < 2 THEN <<>>
        ELSE IF stripped \notin stopwords THEN <<stripped>> ELSE <<>>

\* the body of the loop over tokens (lines 71-83): what one token adds to
\* filtered
filter_token(token, order) ==
    IF Len(token) < 2 THEN <<>>
    ELSE LET stripped == strip_josa(token, order)
         IN  IF stripped # <<>> /\ stripped \notin stopwords THEN <<stripped>> ELSE <<>>

RECURSIVE filtered_of(_, _)
filtered_of(tokens, order) ==
    IF tokens = <<>> THEN <<>>
    ELSE filter_token(Head(tokens), order) \o filtered_of(Tail(tokens), order)

\* KoreanTokenizer._simple_tokenize(text) in a run that iterates the
\* stopwords in the given order
KoreanTokenizer_simple_tokenize(text, order) ==
    filtered_of(split(re_sub(lower(text))), order)

\* a run of the program with a tokenizer that has no analyzer
InitSimple ==
    /\ NoIndexObject
    /\ NoPool
    /\ NoRetry
    /\ store_class = "hierarchical"
    /\ NewStore
    /\ ret = Idle
    /\ fusion = NoFusion
    /\ NoThreads
    /\ tokenizer_object = [use_morphs |-> FALSE, tokenizer |-> "None"]
    /\ stopwords_order \in StopwordOrders
    /\ tcall = [op |-> "init"]
    /\ fell_back = FALSE

tokOnly == <<storeVars, ret, fusion, concVars, bmVars, poolVars, retryVars>>

\* _simple_tokenize(text)
SimpleTokenize ==
    /\ tcall.op = "init"
    /\ \E text \in CharTexts :
        tcall' = [op |-> "_simple_tokenize", text |-> text,
                  tokens |-> KoreanTokenizer_simple_tokenize(text, stopwords_order)]
    /\ UNCHANGED <<tokenizer_object, stopwords_order, fell_back>>
    /\ UNCHANGED tokOnly

NextSimple == SimpleTokenize

SpecSimple == InitSimple /\ [][NextSimple]_vars

\* ---------------------------- KoreanTokenizer.tokenize, tokenize_batch
\* the objects __init__ builds: Mecab when konlpy has it, else Okt, else no
\* analyzer; no analyzer when use_morphs is False
Tokenizers ==
    { [use_morphs |-> TRUE, tokenizer |-> "Mecab"],
      [use_morphs |-> TRUE, tokenizer |-> "Okt"],
      [use_morphs |-> TRUE, tokenizer |-> "None"],
      [use_morphs |-> FALSE, tokenizer |-> "None"] }

\* self.tokenizer.pos(text) is the analyzer's: it raises, or returns up to
\* MaxMorphs (word, pos) pairs
MaxMorphs == 1

Morphemes == { [word |-> <<"hak">>, pos |-> "NNG"], [word |-> <<"neun">>, pos |-> "JX"] }

NoAnalysis == [raises |-> FALSE, morphs |-> <<>>]

Analyses ==
    {[raises |-> TRUE, morphs |-> <<>>]} \cup
    {[raises |-> FALSE, morphs |-> m] : m \in UNION {[1..n -> Morphemes] : n \in 0..MaxMorphs}}

\* lines 45-48: the words whose tag is one of the six kept
content_words(morphs) ==
    LET kept == SelectSeq(morphs, LAMBDA m : m.pos \in {"NNG", "NNP", "VV", "VA", "MAG", "NR"})
    IN  [i \in DOMAIN kept |-> kept[i].word]

\* a slip: the analyzer asked before the test for an empty text
tokenize_analyzer_first(self, text, analysis, order) ==
    IF self.tokenizer # "None"
    THEN IF analysis.raises
         THEN [tokens |-> IF text = <<>> THEN <<>>
                          ELSE KoreanTokenizer_simple_tokenize(text, order),
               path |-> "fallback", pos_calls |-> 1, self |-> self]
         ELSE [tokens |-> IF text = <<>> THEN <<>> ELSE content_words(analysis.morphs),
               path |-> "morphs", pos_calls |-> 1, self |-> self]
    ELSE [tokens |-> KoreanTokenizer_simple_tokenize(text, order),
          path |-> "simple", pos_calls |-> 0, self |-> self]

\* a slip: the analyzer dropped for good once it has failed
tokenize_degrading(self, text, analysis, order) ==
    IF text = <<>>
    THEN [tokens |-> <<>>, path |-> "empty", pos_calls |-> 0, self |-> self]
    ELSE IF self.tokenizer # "None"
         THEN IF analysis.raises
              THEN [tokens |-> KoreanTokenizer_simple_tokenize(text, order),
                    path |-> "fallback", pos_calls |-> 1,
                    self |-> [self EXCEPT !.tokenizer = "None"]]
              ELSE [tokens |-> content_words(analysis.morphs),
                    path |-> "morphs", pos_calls |-> 1, self |-> self]
         ELSE [tokens |-> KoreanTokenizer_simple_tokenize(text, order),
               path |-> "simple", pos_calls |-> 0, self |-> self]

\* KoreanTokenizer.tokenize(text): the tokens returned, the branch taken, the
\* number of calls of tokenizer.pos and the object after the call
KoreanTokenizer_tokenize(self, text, analysis, order) ==
    IF text = <<>>
    THEN [tokens |-> <<>>, path |-> "empty", pos_calls |-> 0, self |-> self]
    ELSE IF self.tokenizer # "None"
         THEN IF analysis.raises
              THEN \* except Exception: logged, then line 54
                   [tokens |-> KoreanTokenizer_simple_tokenize(text, order),
                    path |-> "fallback", pos_calls |-> 1, self |-> self]
              ELSE [tokens |-> content_words(analysis.morphs),
                    path |-> "morphs", pos_calls |-> 1, self |-> self]
         ELSE [tokens |-> KoreanTokenizer_simple_tokenize(text, order),
               path |-> "simple", pos_calls |-> 0, self |-> self]

\* a slip: the batch given up at the first text whose analysis fails
RECURSIVE tokenize_batch_aborting(_, _, _, _)
tokenize_batch_aborting(self, texts, analyses, order) ==
    IF texts = <<>> THEN [tokens |-> <<>>, paths |-> <<>>, self |-> self]
    ELSE LET first == KoreanTokenizer_tokenize(self, Head(texts), Head(analyses), order)
             rest == tokenize_batch_aborting(first.self, Tail(texts), Tail(analyses), order)
         IN  IF first.path = "fallback"
             THEN [tokens |-> <<>>, paths |-> <<>>, self |-> first.self]
             ELSE [tokens |-> <<first.tokens>> \o rest.tokens,
                   paths |-> <<first.path>> \o rest.paths,
                   self |-> rest.self]

\* KoreanTokenizer.tokenize_batch(texts): [self.tokenize(text) for text in
\* texts]; analyses[i] is what the analyzer does with texts[i]
RECURSIVE KoreanTokenizer_tokenize_batch(_, _, _, _)
KoreanTokenizer_tokenize_batch(self, texts, analyses, order) ==
    IF texts = <<>> THEN [tokens |-> <<>>, paths |-> <<>>, self |-> self]
    ELSE LET first == KoreanTokenizer_tokenize(self, Head(texts), Head(analyses), order)
             rest == KoreanTokenizer_tokenize_batch(first.self, Tail(texts),
                                                    Tail(analyses), order)
         IN  [tokens |-> <<first.tokens>> \o rest.tokens,
              paths |-> <<first.path>> \o rest.paths,
              self |-> rest.self]

\* the texts the tokenizer is called with, at most MaxBatch in a batch
MaxBatch == 2

TokTexts == { <<>>, <<"hak", "neun">>, <<"A", "!", "hak", "eu", "ro">> }

\* what the analyzer of the object can do with a text: nothing is asked of
\* an analyzer that is not there
AnalysesOf(self) == IF self.tokenizer = "None" THEN {NoAnalysis} ELSE Analyses

InitTok ==
    /\ NoIndexObject
    /\ NoPool
    /\ NoRetry
    /\ store_class = "hierarchical"
    /\ NewStore
    /\ ret = Idle
    /\ fusion = NoFusion
    /\ NoThreads
    /\ tokenizer_object \in Tokenizers
    /\ stopwords_order \in StopwordOrders
    /\ tcall = [op |-> "init"]
    /\ fell_back = FALSE

TokIdle == tcall.op \in {"init", "idle"} /\ stopwords_order # <<>>

\* the caller takes the result of the call
ReturnTok ==
    /\ stopwords_order # <<>>
    /\ tcall.op \in {"tokenize", "tokenize_batch"}
    /\ tcall' = [op |-> "idle"]
    /\ UNCHANGED <<tokenizer_object, stopwords_order, fell_back>>
    /\ UNCHANGED tokOnly

\* tokenize(text)
Tokenize ==
    /\ TokIdle
    /\ \E text \in TokTexts, analysis \in AnalysesOf(tokenizer_object) :
        LET outcome == KoreanTokenizer_tokenize(tokenizer_object, text, analysis,
                                                stopwords_order)
        IN  /\ tcall' = [op |-> "tokenize", text |-> text, analysis |-> analysis,
                         tokens |-> outcome.tokens, path |-> outcome.path,
                         pos_calls |-> outcome.pos_calls]
            /\ tokenizer_object' = outcome.self
            /\ fell_back' = (fell_back \/ outcome.path = "fallback")
    /\ UNCHANGED stopwords_order
    /\ UNCHANGED tokOnly

\* tokenize_batch(texts)
TokenizeBatch ==
    /\ TokIdle
    /\ \E n \in 0..MaxBatch :
       \E texts \in [1..n -> TokTexts], analyses \in [1..n -> AnalysesOf(tokenizer_object)] :
        LET outcome == KoreanTokenizer_tokenize_batch(tokenizer_object, texts, analyses,
                                                      stopwords_order)
        IN  /\ tcall' = [op |-> "tokenize_batch", texts |-> texts,
                         analyses |-> analyses,
                         tokens |-> outcome.tokens, paths |-> outcome.paths]
            /\ tokenizer_object' = outcome.self
            /\ fell_back' = (fell_back \/ "fallback" \in Range(outcome.paths))
    /\ UNCHANGED stopwords_order
    /\ UNCHANGED tokOnly

NextTok ==
    \/ ReturnTok
    \/ Tokenize
    \/ TokenizeBatch

SpecTok == InitTok /\ [][NextTok]_vars

\* ------------------------------------------------------ GRPCClientPool
\* One pool object (__new__ hands out the same instance) used by the tasks
\* of one event loop.  A task runs until it awaits: `async with self._lock`
\* waits while another task holds the lock, `await channel.close()` yields.
MaxChannels == 3

\* a slip: a channel made for every call
get_client_always_new(chans, target, fresh) == Put(chans, target, fresh)

\* lines 32-35: self.channels after the body of get_client; fresh is the
\* object grpc.aio.insecure_channel(target) would return
get_client_channels(chans, target, fresh) ==
    IF target \notin DOMAIN chans THEN Put(chans, target, fresh) ELSE chans

\* self.channels.items(): a dict iterates in insertion order, which is the
\* order in which the channels were made
RECURSIVE items_of(_)
items_of(chans) ==
    IF DOMAIN chans = {} THEN <<>>
    ELSE LET first == CHOOSE t \in DOMAIN chans :
                          \A u \in DOMAIN chans : chans[t] <= chans[u]
         IN  <<first>> \o items_of([t \in DOMAIN chans \ {first} |-> chans[t]])

InitPool ==
    /\ NoIndexObject
    /\ NoTokenizer
    /\ NoRetry
    /\ store_class = "hierarchical"
    /\ NewStore
    /\ ret = Idle
    /\ fusion = NoFusion
    /\ NoThreads
    /\ channels = Empty
    /\ lock_holder = "none"
    /\ task_pc = [t \in Tasks |-> "idle"]
    /\ task_target = [t \in Tasks |-> None]
    /\ closing = <<>>
    /\ next_channel = 0
    /\ made = [target \in Targets |-> {}]
    /\ handed = {}

poolOnly == <<storeVars, ret, fusion, concVars, bmVars, tokVars, retryVars>>

\* a task calls get_client(target) and reaches `async with self._lock`
GetClientCall ==
    \E t \in {"c1", "c2"}, target \in Targets :
        /\ task_pc[t] = "idle"
        /\ task_pc' = [task_pc EXCEPT ![t] = "waiting"]
        /\ task_target' = [task_target EXCEPT ![t] = target]
        /\ UNCHANGED <<channels, lock_holder, closing, next_channel, made, handed>>
        /\ UNCHANGED poolOnly

\* the lock is free: the task takes it, runs lines 32-37 without awaiting,
\* releases it and returns the channel
GetClientBody ==
    \E t \in {"c1", "c2"} :
        LET target == task_target[t]
            after == get_client_channels(channels, target, next_channel + 1)
            created == after # channels
        IN  /\ task_pc[t] = "waiting"
            /\ lock_holder = "none"
            /\ created => next_channel < MaxChannels
            /\ channels' = after
            /\ next_channel' = IF created THEN next_channel + 1 ELSE next_channel
            /\ made' = IF created
                       THEN [made EXCEPT ![target] = @ \cup {after[target]}]
                       ELSE made
            /\ handed' = handed \cup {[target |-> target, channel |-> after[target]]}
            /\ task_pc' = [task_pc EXCEPT ![t] = "idle"]
            /\ task_target' = [task_target EXCEPT ![t] = None]
            /\ UNCHANGED <<lock_holder, closing>>
            /\ UNCHANGED poolOnly

\* a task calls close_all and reaches `async with self._lock`
CloseAllCall ==
    /\ task_pc["x"] = "idle"
    /\ task_pc' = [task_pc EXCEPT !["x"] = "waiting"]
    /\ UNCHANGED <<channels, lock_holder, task_target, closing, next_channel, made, handed>>
    /\ UNCHANGED poolOnly

\* the lock is free: close_all takes it and starts its loop
CloseAllEnter ==
    /\ task_pc["x"] = "waiting"
    /\ lock_holder = "none"
    /\ lock_holder' = "x"
    /\ closing' = items_of(channels)
    /\ task_pc' = [task_pc EXCEPT !["x"] = "closing"]
    /\ UNCHANGED <<channels, task_target, next_channel, made, handed>>
    /\ UNCHANGED poolOnly

\* await channel.close() of the next channel returns
CloseChannel ==
    /\ task_pc["x"] = "closing"
    /\ closing # <<>>
    /\ closing' = Tail(closing)
    /\ UNCHANGED <<channels, lock_holder, task_pc, task_target, next_channel, made, handed>>
    /\ UNCHANGED poolOnly

\* the loop is over: self.channels.clear(), the lock is released
CloseAllReturn ==
    /\ task_pc["x"] = "closing"
    /\ closing = <<>>
    /\ channels' = Empty
    /\ lock_holder' = "none"
    /\ made' = [target \in Targets |-> {}]
    /\ handed' = {}
    /\ task_pc' = [task_pc EXCEPT !["x"] = "idle"]
    /\ UNCHANGED <<task_target, closing, next_channel>>
    /\ UNCHANGED poolOnly

NextPool ==
    \/ GetClientCall
    \/ GetClientBody
    \/ CloseAllCall
    \/ CloseAllEnter
    \/ CloseChannel
    \/ CloseAllReturn

SpecPool == InitPool /\ [][NextPool]_vars

\* ------------------------------------------------------ retry_llm_call
\* The wrapper retry_llm_call(max_attempts, retry_on=...) puts around func:
\* tenacity's loop with stop_after_attempt(max_attempts),
\* retry_if_exception_type(retry_on) and reraise=True.  The decorator is
\* used with max_attempts of 1 or more.
MaxAttempts == 3

\* what one invocation of func does: it returns a value, or raises a
\* ValueError or a KeyError with a message
FuncOutcomes == {[kind |-> "return", type |-> None, value |-> "Success"],
                 [kind |-> "return", type |-> None, value |-> "Other"],
                 [kind |-> "raise", type |-> "ValueError", value |-> "Fail"],
                 [kind |-> "raise", type |-> "ValueError", value |-> "Permanent Fail"],
                 [kind |-> "raise", type |-> "KeyError", value |-> "Fail"]}

\* retry_if_exception_type(retry_on): isinstance(exception, retry_on)
retry_if_exception_type(types, outcome) ==
    /\ outcome.kind = "raise"
    /\ ("Exception" \in types \/ outcome.type \in types)

\* a slip: one attempt more than max_attempts
stop_after_one_more(max_attempt_number, attempt) == attempt > max_attempt_number

\* stop_after_attempt(max_attempts): attempt_number >= max_attempt_number
stop_after_attempt(max_attempt_number, attempt) == attempt >= max_attempt_number

InitRetry ==
    /\ NoIndexObject
    /\ NoTokenizer
    /\ NoPool
    /\ store_class = "hierarchical"
    /\ NewStore
    /\ ret = Idle
    /\ fusion = NoFusion
    /\ NoThreads
    /\ max_attempts \in 1..MaxAttempts
    /\ retry_on \in {{"Exception"}, {"ValueError"}}
    /\ retry_pc = "idle"
    /\ attempt_number = 0
    /\ invocations = <<>>
    /\ wrapper_result = NoResult

retryOnly == <<storeVars, ret, fusion, concVars, bmVars, tokVars, poolVars>>

\* the caller calls the wrapper: tenacity starts attempt 1
WrapperCall ==
    /\ retry_pc = "idle"
    /\ retry_pc' = "attempt"
    /\ attempt_number' = 1
    /\ invocations' = <<>>
    /\ wrapper_result' = NoResult
    /\ UNCHANGED <<max_attempts, retry_on>>
    /\ UNCHANGED retryOnly

\* one attempt: func is invoked; its result is returned, an exception that
\* is not retried is raised, an exception at the last attempt is raised
\* again (reraise=True), any other exception is followed by a sleep
Invoke ==
    /\ retry_pc = "attempt"
    /\ \E outcome \in FuncOutcomes :
        /\ invocations' = Append(invocations, outcome)
        /\ IF outcome.kind = "return"
           THEN /\ retry_pc' = "done"
                /\ wrapper_result' = [status |-> "returned", value |-> outcome,
                                      attempt |-> attempt_number]
           ELSE IF ~retry_if_exception_type(retry_on, outcome)
                   \/ stop_after_attempt(max_attempts, attempt_number)
                THEN /\ retry_pc' = "done"
                     /\ wrapper_result' = [status |-> "raised", value |-> outcome,
                                           attempt |-> attempt_number]
                ELSE /\ retry_pc' = "sleeping"
                     /\ UNCHANGED wrapper_result
    /\ UNCHANGED <<max_attempts, retry_on, attempt_number>>
    /\ UNCHANGED retryOnly

\* the wait is over: the next attempt
Wake ==
    /\ retry_pc = "sleeping"
    /\ retry_pc' = "attempt"
    /\ attempt_number' = attempt_number + 1
    /\ UNCHANGED <<max_attempts, retry_on, invocations, wrapper_result>>
    /\ UNCHANGED retryOnly

\* the caller takes the result (or the exception) of the call
WrapperReturn ==
    /\ retry_pc = "done"
    /\ retry_pc' = "idle"
    /\ UNCHANGED <<max_attempts, retry_on, attempt_number, invocations, wrapper_result>>
    /\ UNCHANGED retryOnly

NextRetry ==
    \/ WrapperCall
    \/ Invoke
    \/ Wake
    \/ WrapperReturn

SpecRetry == InitRetry /\ [][NextRetry]_vars

\* ------------------------------ a store opened over a damaged persist_dir
\* __init__ takes the collections as get_or_create_collection finds them in
\* persist_dir (lines 33-45): here the child collection holds the chunks of
\* a document while the parent collection has lost some of its records (it
\* was deleted or restored apart from the child collection, and created
\* again empty or incomplete).
Restrict(f, S) == [x \in S |-> f[x]]

InitFault ==
    /\ NoIndexObject
    /\ NoLibraryUse
    /\ store_class = "hierarchical"
    /\ collection = Empty
    /\ bm25 = NotBuilt
    /\ doc_ids_for_bm25 = <<>>
    /\ docs_for_bm25 = <<>>
    /\ bm25_child = NoBM25
    /\ child_doc_ids = <<>>
    /\ child_docs = <<>>
    /\ ret = Idle
    /\ fusion = NoFusion
    /\ NoThreads
    /\ \E doc \in Documents :
        LET writes == Writes(doc, doc.sections)
            parents == Written(Empty, "parent", writes, Len(writes))
        IN  /\ child_collection = Written(Empty, "child", writes, Len(writes))
            /\ \E kept \in SUBSET DOMAIN parents :
                parent_collection = Restrict(parents, kept)

NextFault ==
    \/ Return
    \/ Construct
    \/ add_hierarchical_document
    \/ query_with_parent_context

SpecFault == InitFault /\ [][NextFault]_vars

\* ------------------------------------------------------------------ C1
\* every text some document stores under the chunk id
AllWrites == UNION {Range(Writes(d, d.sections)) : d \in Documents}
ChunkTexts(id) == {w.document : w \in {x \in AllWrites : x.id = id}}

C3_IndexCurrentAfterAdd ==
    (ret.op = "add" /\ ret.status = "ok" /\ ret.child_count > 0) =>
        /\ Range(child_doc_ids) = DOMAIN child_collection
        /\ Len(child_doc_ids) = Cardinality(DOMAIN child_collection)
        /\ \A i \in DOMAIN child_doc_ids :
            child_docs[i] = child_collection[child_doc_ids[i]].document
        /\ bm25_child.bm25.built
        /\ bm25_child.bm25.corpus = tokenize_batch(child_docs)

\* ------------------------------------------------------------------ C4
\* C4: in every reachable state of either store, every id in the sparse
\* index (child_doc_ids, doc_ids_for_bm25) is an id of the dense collection
\* behind it.
C4_SparseIdsResolvable ==
    /\ Range(child_doc_ids) \subseteq DOMAIN child_collection
    /\ Range(doc_ids_for_bm25) \subseteq DOMAIN collection

\* an index that was built, then left behind by later writes
C4_Witness ==
    /\ child_doc_ids # <<>>
    /\ Range(child_doc_ids) # DOMAIN child_collection

\* ------------------------------------------------------------------ C5
ChildParentIds(children) == {children[i].metadata.parent_id : i \in DOMAIN children}

\* C5: parent_ids of a query result holds exactly the parent ids of the
\* matched children, each once, and parent_contexts holds exactly one record
\* for each of them.
C5_ParentIdsDeduplicated ==
    (ret.op = "query" /\ ret.status = "ok") =>
        LET r == ret.result
        IN  /\ Range(r.parent_ids) = ChildParentIds(r.matched_children)
            /\ \A i, j \in DOMAIN r.parent_ids : i # j => r.parent_ids[i] # r.parent_ids[j]
            /\ \A i \in DOMAIN r.parent_ids :
                Cardinality({j \in DOMAIN r.parent_contexts :
                                r.parent_contexts[j].id = r.parent_ids[i]}) = 1

\* two matched children share their parent
C5_Witness ==
    /\ ret.op = "query"
    /\ ret.status = "ok"
    /\ \E i, j \in DOMAIN ret.result.matched_children :
        /\ i # j
        /\ ret.result.matched_children[i].metadata.parent_id
           = ret.result.matched_children[j].metadata.parent_id

PositionIn(list, id) ==
    IF \E i \in DOMAIN list : list[i] = id
    THEN CHOOSE i \in DOMAIN list : list[i] = id
    ELSE 0

\* 1 / (60 + r + 1) for the 0-based rank r = position - 1; 0 for no position
TermAt(position) == IF position = 0 THEN FracZero ELSE <<1, 60 + position>>

ExpectedTotal(id) ==
    FracAdd(TermAt(PositionIn(fusion.vector_ids, id)), TermAt(PositionIn(fusion.bm25_ids, id)))

FusedIds == Range(fusion.vector_ids) \cup Range(fusion.bm25_ids)

\* C8: every id of either list gets the total sum of 1/(60 + r + 1) over its
\* 0-based ranks r in the lists it appears in, and the output is the first k
\* ids by descending total.
C8_ContributionsSummedDescending ==
    fusion.stage = "sorted" =>
        /\ DOMAIN fusion.doc_scores.score = FusedIds
        /\ \A id \in FusedIds : FracEq(fusion.doc_scores.score[id], ExpectedTotal(id))
        /\ Len(fusion.sorted_ids) = Min(fusion.k, Cardinality(FusedIds))
        /\ Range(fusion.sorted_ids) \subseteq FusedIds
        /\ \A i, j \in DOMAIN fusion.sorted_ids :
            i < j => ~FracLess(ExpectedTotal(fusion.sorted_ids[i]),
                               ExpectedTotal(fusion.sorted_ids[j]))
        /\ \A id \in FusedIds \ Range(fusion.sorted_ids) :
            \A i \in DOMAIN fusion.sorted_ids :
                ~FracLess(ExpectedTotal(fusion.sorted_ids[i]), ExpectedTotal(id))

\* an id ranked in both lists at different ranks, fused with an id of one list
C8_Witness ==
    /\ fusion.stage = "sorted"
    /\ Len(fusion.sorted_ids) >= 2
    /\ \E id \in FusedIds :
        /\ PositionIn(fusion.vector_ids, id) > 0
        /\ PositionIn(fusion.bm25_ids, id) > 0
        /\ PositionIn(fusion.vector_ids, id) # PositionIn(fusion.bm25_ids, id)
    /\ \E id \in FusedIds : PositionIn(fusion.vector_ids, id) = 0

\* the place at which the fusion first sees the id: the dense list first,
\* then the sparse list
FirstSeen(id) ==
    IF PositionIn(fusion.vector_ids, id) > 0
    THEN PositionIn(fusion.vector_ids, id)
    ELSE Len(fusion.vector_ids) + PositionIn(fusion.bm25_ids, id)

\* a is ranked before b: a higher total, or the same total and seen earlier
Before(a, b) ==
    \/ FracLess(ExpectedTotal(b), ExpectedTotal(a))
    \/ /\ FracEq(ExpectedTotal(a), ExpectedTotal(b))
       /\ FirstSeen(a) < FirstSeen(b)

\* C9: the output is fixed by the inputs alone: ids are ordered by
\* descending total, and ids of equal total by the place at which the fusion
\* first saw them (dense list before sparse list, then the rank in the list).
C9_StableTieBreak ==
    fusion.stage = "sorted" =>
        /\ \A i, j \in DOMAIN fusion.sorted_ids :
            i < j => Before(fusion.sorted_ids[i], fusion.sorted_ids[j])
        /\ \A id \in FusedIds \ Range(fusion.sorted_ids) :
            \A i \in DOMAIN fusion.sorted_ids : Before(fusion.sorted_ids[i], id)

\* two different ids of equal total are both in the output
C9_Witness ==
    /\ fusion.stage = "sorted"
    /\ \E i, j \in DOMAIN fusion.sorted_ids :
        /\ i < j
        /\ FracEq(ExpectedTotal(fusion.sorted_ids[i]), ExpectedTotal(fusion.sorted_ids[j]))

\* the damping constants and ranks the arithmetic is checked for
MaxDamping == 64
MaxRank == 4

\* C10: for every K > 0 the sum of two rank-0 contributions is strictly
\* above one contribution of any rank, and with K = 60 an id that is first in
\* both lists has a strictly higher total than every other id and is first
\* in the output.
C10_BothListsFirst ==
    /\ \A K \in 1..MaxDamping, r \in 0..MaxRank :
        FracLess(Reciprocal(K, r), FracAdd(Reciprocal(K, 0), Reciprocal(K, 0)))
    /\ (/\ fusion.stage = "sorted"
        /\ fusion.vector_ids # <<>>
        /\ fusion.bm25_ids # <<>>
        /\ fusion.vector_ids[1] = fusion.bm25_ids[1]) =>
            /\ fusion.sorted_ids[1] = fusion.vector_ids[1]
            /\ \A id \in FusedIds \ {fusion.vector_ids[1]} :
                FracLess(fusion.doc_scores.score[id],
                         fusion.doc_scores.score[fusion.vector_ids[1]])

\* one id heads both lists, another id is in one list only
C10_Witness ==
    /\ fusion.stage = "sorted"
    /\ fusion.vector_ids # <<>>
    /\ fusion.bm25_ids # <<>>
    /\ fusion.vector_ids[1] = fusion.bm25_ids[1]
    /\ \E id \in FusedIds :
        (PositionIn(fusion.vector_ids, id) = 0) # (PositionIn(fusion.bm25_ids, id) = 0)

\* ------------------------------------------------------------------ C2
\* C2: a hybrid query that runs while the index is rebuilt observes the ids,
\* the texts and the fitted corpus of one complete snapshot, the one before
\* the rebuild or the one after it, and never meets an unfitted ranking
\* structure.
C2_ReaderSeesOneSnapshot ==
    rpc = "done" =>
        /\ robs.path # "raised"
        /\ robs.path = "hybrid" => Snapshot(robs.ids, robs.docs, robs.corpus) \in snapshots

\* ------------------------------------------------------------------ C6
\* C6: in a result of query_with_parent_context every id of parent_ids has
\* its record in parent_contexts, or else the call reports the missing parent
\* to the caller: it raises, or its result carries a warning.
C6_MissingParentReported ==
    (ret.op = "query" /\ ret.status = "ok") =>
        \A i \in DOMAIN ret.result.parent_ids :
            \/ \E j \in DOMAIN ret.result.parent_contexts :
                ret.result.parent_contexts[j].id = ret.result.parent_ids[i]
            \/ ret.warnings # <<>>

\* ----------------------------------------------------------------- C11
\* C11: a hybrid search asked for k results returns at most k records, in
\* query_with_parent_context (hybrid path) and in hybrid_search.
C11_AtMostK ==
    /\ (ret.op = "query" /\ ret.status = "ok" /\ ret.path = "hybrid") =>
            Len(ret.result.matched_children) <= ret.k
    /\ (ret.op = "hybrid_search" /\ ret.status = "ok") =>
            Len(ret.result) <= ret.k

\* a hybrid search over more than k chunks that returned exactly k of them
C11_Witness ==
    /\ ret.op = "query"
    /\ ret.status = "ok"
    /\ ret.path = "hybrid"
    /\ Cardinality(DOMAIN child_collection) > ret.k
    /\ Len(child_doc_ids) > ret.k
    /\ Len(ret.result.matched_children) = ret.k

\* ----------------------------------------------------------------- C12
\* the record carries the RRF total of its id as its score
CarriesFusedScore(record, doc_scores) ==
    /\ record.score.kind = "rrf"
    /\ FracEq(record.score.value, doc_scores[record.id])

\* C12: every record a hybrid search returns carries, as its score, the RRF
\* total the fusion computed for its id.
C12_FusedScoreAttached ==
    /\ (ret.op = "query" /\ ret.status = "ok" /\ ret.path = "hybrid") =>
            \A i \in DOMAIN ret.result.matched_children :
                CarriesFusedScore(ret.result.matched_children[i], ret.doc_scores)
    /\ (ret.op = "hybrid_search" /\ ret.status = "ok" /\ ret.path = "hybrid") =>
            \A i \in DOMAIN ret.result :
                CarriesFusedScore(ret.result[i], ret.doc_scores)

\* ----------------------------------------------------------------- C13
\* C13: one hybrid search makes at most one get-by-id call, and that call
\* asks for every winning id the vector search did not return.
C13_OneBatchFetch ==
    /\ (ret.op = "query" /\ ret.status = "ok" /\ ret.path = "hybrid") =>
            /\ Len(ret.gets) <= 1
            /\ \A i \in DOMAIN ret.result.matched_children :
                ret.result.matched_children[i].score.kind = "absent" =>
                    ret.result.matched_children[i].id \in Range(ret.gets[1])
    /\ (ret.op = "hybrid_search" /\ ret.status = "ok" /\ ret.path = "hybrid") =>
            /\ Len(ret.gets) <= 1
            /\ \A i \in DOMAIN ret.result :
                ret.result[i].score.kind = "absent" => ret.result[i].id \in Range(ret.gets[1])

\* a hybrid search returned a record it had to fetch by id
C13_Witness ==
    /\ ret.op \in {"query", "hybrid_search"}
    /\ ret.status = "ok"
    /\ ret.path = "hybrid"
    /\ Len(ret.gets) = 1
    /\ \E i \in DOMAIN (IF ret.op = "query" THEN ret.result.matched_children ELSE ret.result) :
        (IF ret.op = "query" THEN ret.result.matched_children ELSE ret.result)[i].score.kind
            = "absent"

\* ----------------------------------------------------------------- C14
\* position p is ranked before position q: a higher score, or the same
\* score and earlier in the corpus
RankedBefore(scores, p, q) ==
    \/ scores[p] > scores[q]
    \/ scores[p] = scores[q] /\ p < q

\* C14: search(query, top_k) returns the positions of the top_k highest
\* scores in descending order of score, positions of equal score in corpus
\* order.
C14_SearchStableTopK ==
    (call.op = "search" /\ call.status = "ok" /\ call.top_k >= 1) =>
        /\ Len(call.result) = Min(call.top_k, Len(call.scores))
        /\ \A i, j \in DOMAIN call.result :
            i < j => RankedBefore(call.scores, call.result[i], call.result[j])
        /\ \A p \in DOMAIN call.scores \ Range(call.result) :
            \A i \in DOMAIN call.result : RankedBefore(call.scores, call.result[i], p)

\* ----------------------------------------------------------------- C15
\* C15: get_scores and search on a KoreanBM25 that no fit has built raise
\* the "BM25 index not built" error and leave the object as it was.
C15_NotBuiltRaises ==
    [][(call'.op \in {"get_scores", "search"} /\ ~index.bm25.built) =>
            /\ call'.status = "raised"
            /\ call'.error = NotBuiltError
            /\ index' = index]_vars

\* search was called on an object without a built index and raised
C15_Witness ==
    /\ call.op = "search"
    /\ call.status = "raised"
    /\ ~index.bm25.built

C18_InvalidKFailsFast ==
    (call.op = "search" /\ call.top_k <= 0) => call.status = "raised"


\* C19: when a call on the dense store raises during
\* query_with_parent_context or hybrid_search, the call ends with that
\* exception: no result, empty or partial, is returned to the caller
C19_DenseFailurePropagates ==
    (ret.op \in {"query", "hybrid_search"} /\ ret.failed_call # "none") =>
        /\ ret.status = "raised"
        /\ "result" \notin DOMAIN ret

\* the parent fetch of a hybrid query raises after the child search has its
\* results
C19_Witness ==
    /\ ret.op = "query"
    /\ ret.status = "raised"
    /\ ret.failed_call = "parent_get"
    /\ bm25_child.object
    /\ DOMAIN parent_collection # {}

\* C20: parents are never lexically indexed: no id of the sparse index is
\* the id of a parent record, every indexed id that the child collection
\* holds is a child chunk there, no indexed text is a parent's text, and no
\* record a hybrid query matched is a parent record
C20_ParentsNeverIndexed ==
    /\ \A i \in DOMAIN child_doc_ids :
        /\ child_doc_ids[i] \notin DOMAIN parent_collection
        /\ child_doc_ids[i] \in DOMAIN child_collection =>
               child_collection[child_doc_ids[i]].metadata.type = "child"
    /\ \A i \in DOMAIN child_docs :
        \A p \in DOMAIN parent_collection : child_docs[i] # parent_collection[p].document
    /\ (ret.op = "query" /\ ret.status = "ok" /\ ret.path = "hybrid") =>
        \A i \in DOMAIN ret.result.matched_children :
            /\ ret.result.matched_children[i].metadata.type = "child"
            /\ ret.result.matched_children[i].id \notin DOMAIN parent_collection

\* a hybrid query answered from an index built while parents were stored
C20_Witness ==
    /\ ret.op = "query"
    /\ ret.status = "ok"
    /\ ret.path = "hybrid"
    /\ ret.result.matched_children # <<>>
    /\ child_doc_ids # <<>>
    /\ Cardinality(DOMAIN parent_collection) >= 2

\* ----------------------------------------------------------------- C24
\* what the rule lets one token become: the token itself when no particle
\* ends it, else the token with one such particle cut off
Stripped(token) ==
    LET ending == {j \in stopwords : endswith(token, j) /\ Len(token) > Len(j)}
    IN  IF ending = {} THEN {token}
        ELSE {SubSeq(token, 1, Len(token) - Len(j)) : j \in ending}

RECURSIVE AllowedTokens(_)
AllowedTokens(tokens) ==
    IF tokens = <<>> THEN {<<>>}
    ELSE LET heads == IF Len(Head(tokens)) < 2 THEN {<<>>}
                      ELSE {IF t \in stopwords THEN <<>> ELSE <<t>> :
                                t \in Stripped(Head(tokens))}
         IN  {h \o r : h \in heads, r \in AllowedTokens(Tail(tokens))}

\* C24: in heuristic mode the tokens of a text shorter than 2 characters are
\* dropped, each other token that ends with a particle of the set and is
\* longer than it loses that particle, a token that then is a stopword is
\* dropped, and the tokens left keep the order they have in the text
C24_HeuristicRule ==
    tcall.op = "_simple_tokenize" =>
        tcall.tokens \in AllowedTokens(split(re_sub(lower(tcall.text))))

\* two tokens survive, the first after losing its particle to become one
\* character long
C24_Witness ==
    /\ tcall.op = "_simple_tokenize"
    /\ tcall.text = <<"hak", "neun", "!", "A", "A">>
    /\ tcall.tokens = << <<"hak">>, <<"a", "a">> >>

\* ----------------------------------------------------------------- C30
\* C30: _simple_tokenize is a function of the text alone: whatever order the
\* run iterates the stopwords in, the tokens of a text are the same
C30_SimpleTokenizeDeterministic ==
    tcall.op = "_simple_tokenize" =>
        \A order \in StopwordOrders :
            KoreanTokenizer_simple_tokenize(tcall.text, order) = tcall.tokens

\* ----------------------------------------------------------------- C21
\* C21: tokenize_batch returns one token list per text, in the order of the
\* texts, whatever analyses fail: a text whose analysis failed has the
\* tokens of the heuristic, and the other texts of the batch have the
\* tokens of their own mode
C21_BatchNeverAborts ==
    tcall.op = "tokenize_batch" =>
        /\ Len(tcall.tokens) = Len(tcall.texts)
        /\ \A i \in DOMAIN tcall.texts :
            i \in DOMAIN tcall.tokens =>
                tcall.tokens[i] =
                    IF tcall.texts[i] = <<>> THEN <<>>
                    ELSE IF tokenizer_object.tokenizer # "None"
                            /\ ~tcall.analyses[i].raises
                         THEN content_words(tcall.analyses[i].morphs)
                         ELSE KoreanTokenizer_simple_tokenize(tcall.texts[i],
                                                              stopwords_order)

\* the analysis of the first text of a batch fails, the second text is
\* analyzed
C21_Witness ==
    /\ tcall.op = "tokenize_batch"
    /\ tcall.paths = <<"fallback", "morphs">>
    /\ tcall.tokens[1] # <<>>
    /\ tcall.tokens[2] # <<>>

\* ----------------------------------------------------------------- C22
\* C22: no call of tokenize or tokenize_batch changes use_morphs or the
\* analyzer handle, and a call on a text the analyzer can analyze uses the
\* analyzer, also after calls that fell back
C22_ModeFixed ==
    [][/\ tokenizer_object' = tokenizer_object
       /\ (tcall'.op = "tokenize" /\ tcall'.text # <<>>
              /\ tokenizer_object.tokenizer # "None" /\ ~tcall'.analysis.raises) =>
            tcall'.path = "morphs"]_vars

\* a call that uses the analyzer after an earlier call fell back
C22_Witness ==
    /\ fell_back
    /\ tcall.op = "tokenize"
    /\ tcall.path = "morphs"
    /\ tcall.tokens # <<>>

\* ----------------------------------------------------------------- C23
\* C23: tokenize of the empty text returns no token and does not call the
\* analyzer, with or without an analyzer
C23_EmptyText ==
    (tcall.op = "tokenize" /\ tcall.text = <<>>) =>
        /\ tcall.tokens = <<>>
        /\ tcall.pos_calls = 0

\* the empty text given to a tokenizer that has an analyzer
C23_Witness ==
    /\ tcall.op = "tokenize"
    /\ tcall.text = <<>>
    /\ tokenizer_object.tokenizer = "Mecab"

\* ----------------------------------------------------------------- C25
\* C25: between two close_all calls at most one channel is created for a
\* target, every get_client call for the target returns that channel, and
\* two targets never share a channel
C25_ChannelReuse ==
    /\ \A target \in Targets : Cardinality(made[target]) <= 1
    /\ \A h \in handed : made[h.target] = {h.channel}
    /\ \A g, h \in handed : g.target = h.target <=> g.channel = h.channel
    /\ \A t, u \in DOMAIN channels : t # u => channels[t] # channels[u]

\* both targets have a channel, one task has been handed the channel of the
\* target another task is waiting to get, after an earlier close_all
C25_Witness ==
    /\ Cardinality(handed) = 2
    /\ next_channel = 3
    /\ \E t \in {"c1", "c2"} :
        /\ task_pc[t] = "waiting"
        /\ task_target[t] \in DOMAIN channels

\* ----------------------------------------------------------------- C26
AllRetryable(outcomes) ==
    \A i \in DOMAIN outcomes : retry_if_exception_type(retry_on, outcomes[i])

\* C26: a call of the wrapper invokes func at most max_attempts times; it
\* returns the result of the first invocation that returns and invokes no
\* more; when max_attempts invocations all raise a retried exception it
\* raises the exception of the last one, after exactly max_attempts
\* invocations
C26_AtMostNInvocations ==
    /\ Len(invocations) <= max_attempts
    /\ \A i \in DOMAIN invocations :
        invocations[i].kind = "return" =>
            /\ i = Len(invocations)
            /\ retry_pc \in {"done", "idle"}
            /\ wrapper_result.status = "returned"
            /\ wrapper_result.attempt = i
            /\ wrapper_result.value = invocations[i]
    /\ (retry_pc = "done" /\ AllRetryable(invocations)) =>
            /\ Len(invocations) = max_attempts
            /\ wrapper_result.status = "raised"
            /\ wrapper_result.attempt = max_attempts
            /\ wrapper_result.value = invocations[max_attempts]
    /\ (Len(invocations) = max_attempts /\ AllRetryable(invocations)) =>
            retry_pc \in {"done", "idle"}

\* three invocations that raise, the last exception raised to the caller
C26_Witness ==
    /\ retry_pc = "done"
    /\ max_attempts = 3
    /\ Len(invocations) = 3
    /\ AllRetryable(invocations)
    /\ wrapper_result.status = "raised"

\* ----------------------------------------------------------------- C27
\* C27: when add_hierarchical_document has returned, every stored child
\* resolves, through its parent_id, to the parent record built from its own
\* section of its own document
C27_ChildResolvesToOwnParent ==
    (ret.op = "add" /\ ret.status = "ok") =>
        \A c \in DOMAIN child_collection :
            LET child == child_collection[c].metadata
            IN  child.parent_id \in DOMAIN parent_collection =>
                    /\ parent_collection[child.parent_id].metadata.document_id
                           = child.document_id
                    /\ parent_collection[child.parent_id].metadata.section_id
                           = child.section_id

\* ----------------------------------------------------------------- C28
\* C28: a call of add_hierarchical_document that raises leaves the parent
\* collection, the child collection and the sparse index as they were
C28_AllOrNothing ==
    [][(ret'.op = "add" /\ ret'.status = "raised") =>
            /\ child_collection' = child_collection
            /\ parent_collection' = parent_collection
            /\ bm25_child' = bm25_child
            /\ child_doc_ids' = child_doc_ids
            /\ child_docs' = child_docs]_vars

\* ----------------------------------------------------------------- C29
\* the total is what one list alone gives: one reciprocal
SingleContribution(total, k) ==
    \E rank \in 0..(2 * k - 1) : FracEq(total, Contribution(rank))

\* C29: an indexed document that shares no term with the question, so that
\* its BM25 score is 0, gets nothing from the sparse list: when the dense
\* list ranks it, its fused total is its dense contribution alone
C29_NoMatchNoSparseContribution ==
    /\ (ret.op = "query" /\ ret.status = "ok" /\ ret.path = "hybrid") =>
        \A i \in DOMAIN child_doc_ids :
            (/\ ~SharesTerm(bm25_child.bm25.corpus[i], tokenize(ret.question))
             /\ child_doc_ids[i] \in DOMAIN ret.doc_scores
             /\ child_doc_ids[i] \in Range(Ids(ret.similar))) =>
                SingleContribution(ret.doc_scores[child_doc_ids[i]], ret.k)
    /\ (ret.op = "hybrid_search" /\ ret.status = "ok" /\ ret.path = "hybrid") =>
        \A i \in DOMAIN doc_ids_for_bm25 :
            (/\ ~SharesTerm(bm25.corpus[i], split_space(ret.question))
             /\ doc_ids_for_bm25[i] \in DOMAIN ret.doc_scores
             /\ doc_ids_for_bm25[i] \in Range(Ids(ret.similar))) =>
                SingleContribution(ret.doc_scores[doc_ids_for_bm25[i]], ret.k)
====
